---- MODULE Spec2Model ----
(***************************************************************************)
(* A model of gitex: the symbol slice resolver (gitex/slicer.py) and the   *)
(* dependency mapper (gitex/dependency_mapper.py).                         *)
(*                                                                         *)
(* Python strings are modelled as sequences of tokens: an identifier is    *)
(* one token, and the punctuation the code splits, joins, strips or        *)
(* matches on (".", "::", "/") is a token of its own.  So "x.m" is         *)
(* <<"x", ".", "m">>, and join, split, strip and endswith are computed on  *)
(* the token sequence the way Python computes them on the characters.      *)
(***************************************************************************)
EXTENDS Integers, Sequences, FiniteSets, TLC

VARIABLES
    \* ---- slicer: resolve_slice_dependencies(root_path, start_file, symbol_name)
    files,              \* the *.py files root.rglob finds under the root
    start,              \* start_file
    symbol_name,        \* symbol_name
    pc,                 \* position in resolve_slice_dependencies
    todo,               \* files root.rglob has not yielded yet
    module_to_file,     \* module_to_file
    selected_files,     \* selected_files
    queue,              \* queue
    processed_modules,  \* processed_modules
    result,             \* the returned set
    addCount,           \* per file, how often selected_files.add was called on it
    run,                \* which invocation on the unchanged tree this is
    prev_result,        \* what the previous invocation returned
    \* ---- dependency mapper: DependencyMapper.analyze(file_paths)
    python_files,       \* self.python_files, in the order file_paths gives them
    dpc,                \* position in analyze
    next_file,          \* index into python_files of the file analysed next
    analyze_calls,      \* how many times analyze has been called on the mapper
    project_modules,    \* self.project_modules
    analysis_imports,   \* self.analysis.imports
    analysis_classes,   \* self.analysis.classes
    analysis_functions, \* self.analysis.functions
    file_dependencies,  \* self.analysis.file_dependencies
    inheritance_tree,   \* self.analysis.inheritance_tree
    function_call_graph, \* self.analysis.function_call_graph
    notices,            \* the files analyze has printed a "Warning: Failed to analyze" for
    call_stack,         \* the class keys of the active calls of format_inheritance_tree
    \* ---- interactive picker: _PickerApp(nodes)
    app_nodes,          \* self.nodes, the FileNode tree, by path
    selected_paths,     \* self.selected_paths
    selected_nodes,     \* self.selected_nodes
    label,              \* the label of every TreeNode the Tree widget has
    expanded,           \* the TreeNodes that are expanded
    cursor,             \* tree.cursor_node
    screen,             \* "main", "modal" (symbol dialog open), or how the app exited
    slice_node,         \* the file the symbol dialog is open for
    paths_at_slice,     \* selected_paths when action_slice opened the symbol dialog
                        \* that is open; empty when none is open
    modal_result        \* what the symbol dialog was dismissed with

\* the command line: cli (main.py) and the fences of the renderer
VARIABLES
    argv,               \* the flags of the command line
    in_repo,            \* whether git.Repo finds a repository at or above the path
    file_content,       \* the text of the file of the directory, one character each
    file_lang,          \* what _detect_lang gives for the file
    cpc,                \* where cli is
    stderr_lines,       \* what cli has written to stderr
    out_parts,          \* out_parts of cli
    file_block,         \* the opening and closing fence render_files has built
    clipboard_calls,    \* the number of calls of copy_to_clipboard
    echoed              \* whether final_output was echoed to stdout

sliceVars == <<files, start, symbol_name, pc, todo, module_to_file, selected_files,
               queue, processed_modules, result, addCount, run, prev_result>>

depVars == <<python_files, dpc, next_file, analyze_calls, project_modules,
             analysis_imports, analysis_classes, analysis_functions,
             file_dependencies, inheritance_tree, function_call_graph, notices,
             call_stack>>

pickVars == <<app_nodes, selected_paths, selected_nodes, label, expanded, cursor, screen,
              slice_node, paths_at_slice, modal_result>>

cliVars == <<argv, in_repo, file_content, file_lang, cpc, stderr_lines, out_parts,
             file_block, clipboard_calls, echoed>>

vars == <<sliceVars, depVars, pickVars, cliVars>>

-----------------------------------------------------------------------------
(* Bounds *)

\* The most files a file tree holds.
MaxFiles == 4
\* How many times the slicer is invoked on the unchanged tree.
MaxRuns == 2
\* The most files analyze is given.
MaxPyFiles == 2
\* How many times analyze is called on one mapper.
MaxAnalyses == 2

\* how deep format_inheritance_tree may recurse before Python raises
\* RecursionError
RecursionLimit == 4

\* the longest file content rendered
MaxContent == 4

-----------------------------------------------------------------------------
(* Strings *)

NoneStr == <<>>

Id(x) == <<x>>

Range(s) == {s[i] : i \in 1..Len(s)}

\* ".".join(parts)
RECURSIVE Join(_)
Join(parts) ==
    IF parts = <<>> THEN <<>>
    ELSE IF Len(parts) = 1 THEN parts[1]
    ELSE parts[1] \o <<".">> \o Join(Tail(parts))

\* s.split('.')[0]
FirstDotted(s) ==
    IF \E i \in 1..Len(s) : s[i] = "."
    THEN SubSeq(s, 1, (CHOOSE i \in 1..Len(s) :
                          s[i] = "." /\ \A j \in 1..(i - 1) : s[j] # ".") - 1)
    ELSE s

\* PurePath.with_suffix("") on the final path segment: the name up to its last
\* dot, when that dot is neither the first nor the last character.
StripSuffix(name) ==
    LET dots == {i \in 2..(Len(name) - 1) : name[i] = "."}
    IN  IF dots = {} THEN name
        ELSE SubSeq(name, 1, (CHOOSE i \in dots : \A j \in dots : j <= i) - 1)

\* sep.join(parts)
RECURSIVE JoinWith(_, _)
JoinWith(parts, sep) ==
    IF parts = <<>> THEN <<>>
    ELSE IF Len(parts) = 1 THEN parts[1]
    ELSE parts[1] \o <<sep>> \o JoinWith(Tail(parts), sep)

\* s.replace(old, new), old and new one character each
Replace(s, old, new) == [i \in 1..Len(s) |-> IF s[i] = old THEN new ELSE s[i]]

\* s.split(sep)
RECURSIVE Split(_, _)
Split(s, sep) ==
    IF \E i \in 1..Len(s) : s[i] = sep
    THEN LET k == CHOOSE i \in 1..Len(s) : s[i] = sep /\ \A j \in 1..(i - 1) : s[j] # sep
         IN  <<SubSeq(s, 1, k - 1)>> \o Split(SubSeq(s, k + 1, Len(s)), sep)
    ELSE <<s>>

\* s.strip(ch)
RECURSIVE Strip(_, _)
Strip(s, ch) ==
    IF s # <<>> /\ s[1] = ch THEN Strip(Tail(s), ch)
    ELSE IF s # <<>> /\ s[Len(s)] = ch THEN Strip(SubSeq(s, 1, Len(s) - 1), ch)
    ELSE s

\* s.endswith(suffix)
EndsWith(s, suffix) ==
    /\ Len(suffix) <= Len(s)
    /\ SubSeq(s, Len(s) - Len(suffix) + 1, Len(s)) = suffix

-----------------------------------------------------------------------------
(* The file trees the slicer is run on *)

PyName(stem) == <<stem, ".", "py">>

\* rel_path.parts of every candidate file
RelParts ==
    [ a  |-> <<PyName("a")>>,
      b  |-> <<PyName("b")>>,
      m  |-> <<PyName("m")>>,
      x  |-> <<PyName("x")>>,
      xi |-> <<Id("x"), PyName("__init__")>>,
      xm |-> <<Id("x"), PyName("m")>>,
      ym |-> <<Id("y"), PyName("m")>> ]

AllFiles == DOMAIN RelParts

Alias(name, asname) == [name |-> name, asname |-> asname]

\* ast.FunctionDef / ast.ClassDef at top level; used: the ids of the ast.Name
\* nodes below it
DefStmt(name, used) ==
    [kind |-> "def", name |-> name, used |-> used,
     names |-> <<>>, module |-> NoneStr, level |-> 0]

\* ast.Import
ImportStmt(names) ==
    [kind |-> "import", name |-> NoneStr, used |-> {},
     names |-> names, module |-> NoneStr, level |-> 0]

\* ast.ImportFrom
FromStmt(module, level, names) ==
    [kind |-> "from", name |-> NoneStr, used |-> {},
     names |-> names, module |-> module, level |-> level]

\* What read_text + ast.parse give for each candidate file: ok is FALSE when
\* either raises; body is tree.body.
Content ==
    [ a  |-> [ok |-> TRUE, body |-> <<
                 FromStmt(Id("b"), 0, <<Alias(Id("helper"), NoneStr)>>),
                 ImportStmt(<<Alias(Id("m"), NoneStr)>>),
                 DefStmt(Id("f"), {Id("helper")}),
                 DefStmt(Id("g"), {Id("m")}) >>],
      b  |-> [ok |-> TRUE, body |-> <<
                 FromStmt(Id("a"), 0, <<Alias(Id("f"), NoneStr)>>),
                 DefStmt(Id("helper"), {}) >>],
      m  |-> [ok |-> TRUE, body |-> <<
                 ImportStmt(<<Alias(<<"x", ".", "m">>, NoneStr)>>),
                 FromStmt(Id("b"), 0, <<Alias(Id("helper"), Id("h"))>>),
                 DefStmt(Id("f"), {Id("x")}),
                 DefStmt(Id("g"), {Id("helper")}) >>],
      x  |-> [ok |-> TRUE, body |-> <<
                 FromStmt(NoneStr, 2, <<Alias(Id("a"), NoneStr)>>),
                 DefStmt(Id("g"), {Id("a")}) >>],
      xi |-> [ok |-> TRUE, body |-> <<
                 FromStmt(Id("m"), 1, <<Alias(Id("thing"), NoneStr)>>),
                 DefStmt(Id("f"), {Id("thing")}) >>],
      xm |-> [ok |-> TRUE, body |-> <<
                 FromStmt(NoneStr, 1, <<Alias(Id("b"), NoneStr)>>),
                 DefStmt(Id("g"), {Id("b")}) >>],
      ym |-> [ok |-> FALSE, body |-> <<>>] ]

Symbols == {Id("f"), Id("g"), Id("zz")}

-----------------------------------------------------------------------------
(* resolve_slice_dependencies: the module index *)

EmptyMap == [k \in {} |-> "a"]

\* dict[key] = val
Put(map, key, val) == (key :> val) @@ map

\* rel_path.with_suffix("").parts, without the last one for an __init__.py
ModParts(f) ==
    LET p     == RelParts[f]
        n     == Len(p)
        parts == [i \in 1..n |-> IF i = n THEN StripSuffix(p[i]) ELSE p[i]]
    IN  IF p[n] = PyName("__init__") THEN SubSeq(parts, 1, n - 1) ELSE parts

FullModName(f) == Join(ModParts(f))

\* the loop over range(1, len(parts)), from index i on
RECURSIVE RegisterSuffixes(_, _, _, _)
RegisterSuffixes(map, parts, i, f) ==
    IF i > Len(parts) - 1 THEN map
    ELSE LET mod_name == Join(SubSeq(parts, i + 1, Len(parts)))
         IN  RegisterSuffixes(
                 IF mod_name # <<>> /\ mod_name \notin DOMAIN map
                 THEN Put(map, mod_name, f) ELSE map,
                 parts, i + 1, f)

\* The same loop without the "not in module_to_file" test.
RECURSIVE RegisterSuffixesOverwriting(_, _, _, _)
RegisterSuffixesOverwriting(map, parts, i, f) ==
    IF i > Len(parts) - 1 THEN map
    ELSE LET mod_name == Join(SubSeq(parts, i + 1, Len(parts)))
         IN  RegisterSuffixesOverwriting(
                 IF mod_name # <<>> THEN Put(map, mod_name, f) ELSE map,
                 parts, i + 1, f)

RegisterFileOverwriting(map, f) ==
    LET parts == ModParts(f)
        full  == Join(parts)
        m1    == IF full # <<>> THEN Put(map, full, f) ELSE map
    IN  RegisterSuffixesOverwriting(m1, parts, 1, f)

\* one iteration of the loop over root.rglob("*.py")
RegisterFile(map, f) ==
    LET parts == ModParts(f)
        full  == Join(parts)
        m1    == IF full # <<>> THEN Put(map, full, f) ELSE map
    IN  RegisterSuffixes(m1, parts, 1, f)

-----------------------------------------------------------------------------
(* resolve_slice_dependencies: get_imports *)

\* add_import(key, val) on the insertion-ordered dict imports, a sequence of
\* [key, vals] entries
AddImport(imports, key, val) ==
    IF \E i \in 1..Len(imports) : imports[i].key = key
    THEN [i \in 1..Len(imports) |->
             IF imports[i].key = key
             THEN [imports[i] EXCEPT !.vals = Append(@, val)]
             ELSE imports[i]]
    ELSE Append(imports, [key |-> key, vals |-> <<val>>])

\* Keying an import by its module name whatever its alias.
NameOnly(al) == al.name

\* alias.asname or alias.name
BoundName(al) == IF al.asname # NoneStr THEN al.asname ELSE al.name

\* the loop over n.names of an ast.Import, from alias i on
RECURSIVE ImportNames(_, _, _)
ImportNames(imports, names, i) ==
    IF i > Len(names) THEN imports
    ELSE LET al == names[i]
             i1 == AddImport(imports, BoundName(al), al.name)
             i2 == IF al.asname = NoneStr /\ "." \in Range(al.name)
                   THEN AddImport(i1, FirstDotted(al.name), al.name)
                   ELSE i1
         IN  ImportNames(i2, names, i + 1)

\* rel_parts after "for _ in range(n.level - 1): if rel_parts: rel_parts.pop()"
RECURSIVE PopLevels(_, _)
PopLevels(rel_parts, k) ==
    IF k <= 0 \/ rel_parts = <<>> THEN rel_parts
    ELSE PopLevels(SubSeq(rel_parts, 1, Len(rel_parts) - 1), k - 1)

\* the module string an ast.ImportFrom of file f refers to
FromModule(n, f) ==
    IF n.level > 0
    THEN LET parent      == SubSeq(RelParts[f], 1, Len(RelParts[f]) - 1)
             base_module == Join(PopLevels(parent, n.level - 1))
         IN  IF base_module # <<>> /\ n.module # NoneStr
             THEN base_module \o <<".">> \o n.module
             ELSE IF base_module # <<>> THEN base_module
             ELSE n.module
    ELSE n.module

\* the loop over n.names of an ast.ImportFrom, from alias i on
RECURSIVE FromNames(_, _, _, _)
FromNames(imports, n, module, i) ==
    IF i > Len(n.names) THEN imports
    ELSE LET al == n.names[i]
             i1 == IF n.level > 0 /\ n.module = NoneStr /\ module # <<>>
                   THEN AddImport(imports, BoundName(al), module \o <<".">> \o al.name)
                   ELSE imports
         IN  FromNames(AddImport(i1, BoundName(al), module), n, module, i + 1)

\* the loop over t.body, from statement i on
RECURSIVE ImportsFrom(_, _, _, _)
ImportsFrom(imports, body, f, i) ==
    IF i > Len(body) THEN imports
    ELSE LET n  == body[i]
             i1 == IF n.kind = "import" THEN ImportNames(imports, n.names, 1)
                   ELSE IF n.kind = "from" THEN FromNames(imports, n, FromModule(n, f), 1)
                   ELSE imports
         IN  ImportsFrom(i1, body, f, i + 1)

get_imports(body, f) == ImportsFrom(<<>>, body, f, 1)

\* every value list of the dict, in order: "for mod_list in mod_imports.values():
\* queue.extend(mod_list)"
RECURSIVE AllModules(_)
AllModules(imports) ==
    IF imports = <<>> THEN <<>>
    ELSE Head(imports).vals \o AllModules(Tail(imports))

\* Seeding on the module string instead of the bound name.
RECURSIVE SeedByModule(_, _)
SeedByModule(imports, used_names) ==
    IF imports = <<>> THEN <<>>
    ELSE (IF Head(imports).vals[1] \in used_names THEN Head(imports).vals ELSE <<>>)
         \o SeedByModule(Tail(imports), used_names)

\* "for name, modules in start_imports.items(): if name in used_names:
\* queue.extend(modules)"
RECURSIVE SeedQueue(_, _)
SeedQueue(imports, used_names) ==
    IF imports = <<>> THEN <<>>
    ELSE (IF Head(imports).key \in used_names THEN Head(imports).vals ELSE <<>>)
         \o SeedQueue(Tail(imports), used_names)

\* the indices of the top-level class/function statements named symbol
TargetIndices(body, symbol) ==
    {i \in 1..Len(body) : body[i].kind = "def" /\ body[i].name = symbol}

\* get_used_names(target_node), target_node the first statement so named
UsedNames(body, symbol) ==
    LET idx == TargetIndices(body, symbol)
    IN  body[CHOOSE i \in idx : \A j \in idx : i <= j].used

-----------------------------------------------------------------------------
(* resolve_slice_dependencies: the steps *)

\* Returning selected_files, still empty, for a start file that cannot be read.
ReturnSelected(selected, s) == selected

\* "return {str(start)}" when the start file cannot be read or parsed
StartOnly(selected, s) == {s}

\* Rebinding selected_files to the new file instead of adding to it.
ReplaceSelected(selected, f) == {f}

\* selected_files.add(str(file_path))
AddSelected(selected, f) == selected \cup {f}

\* "if module in processed_modules: continue"
AlreadyProcessed(module, processed) == module \in processed

\* The BFS without its test for files already selected.
NeverSelected(f, selected) == FALSE

\* "if str(file_path) in selected_files: continue"
AlreadySelected(f, selected) == f \in selected

\* The BFS adding a file without reading its imports.
NoExpansion(f) == <<>>

\* what the BFS appends to the queue for a file it has just added: the modules
\* of its import table, or nothing when reading or parsing it raises
Expansion(f) ==
    IF Content[f].ok THEN AllModules(get_imports(Content[f].body, f)) ELSE <<>>

\* The mapper when only the slicer is run.
DepsIdle ==
    /\ python_files = <<>>
    /\ dpc = "idle"
    /\ next_file = 0
    /\ analyze_calls = 0
    /\ project_modules = {}
    /\ analysis_imports = <<>>
    /\ analysis_classes = <<>>
    /\ analysis_functions = <<>>
    /\ file_dependencies = <<>>
    /\ inheritance_tree = <<>>
    /\ function_call_graph = <<>>
    /\ notices = <<>>
    /\ call_stack = <<>>

\* tree.cursor_node when the cursor is on no node
NoNode == "<none>"

\* the picker when it is not run
PickIdle ==
    /\ app_nodes = << >>
    /\ selected_paths = {}
    /\ selected_nodes = <<>>
    /\ label = << >>
    /\ expanded = {}
    /\ cursor = NoNode
    /\ screen = "idle"
    /\ slice_node = NoNode
    /\ paths_at_slice = {}
    /\ modal_result = NoNode

\* the command line when it is not run
CliIdle ==
    /\ argv = << >>
    /\ in_repo = FALSE
    /\ file_content = <<>>
    /\ file_lang = <<>>
    /\ cpc = "idle"
    /\ stderr_lines = <<>>
    /\ out_parts = <<>>
    /\ file_block = << >>
    /\ clipboard_calls = 0
    /\ echoed = FALSE

InitSlice ==
    /\ DepsIdle
    /\ PickIdle
    /\ CliIdle
    /\ files \in {S \in SUBSET AllFiles : Cardinality(S) \in 1..MaxFiles}
    /\ start \in files
    /\ symbol_name \in Symbols
    /\ pc = "index"
    /\ todo = files
    /\ module_to_file = EmptyMap
    /\ selected_files = {}
    /\ queue = <<>>
    /\ processed_modules = {}
    /\ result = {}
    /\ addCount = [f \in AllFiles |-> 0]
    /\ run = 1
    /\ prev_result = {}

\* One iteration of "for py_file in root.rglob('*.py')".  rglob yields the files
\* in no specified order, so the next file is any file not yet yielded.
MapFile ==
    /\ pc = "index"
    /\ \E f \in todo :
          /\ module_to_file' = RegisterFile(module_to_file, f)
          /\ todo' = todo \ {f}
    /\ UNCHANGED <<files, start, symbol_name, pc, selected_files, queue,
                   processed_modules, result, addCount, run, prev_result>>
    /\ UNCHANGED depVars
    /\ UNCHANGED pickVars
    /\ UNCHANGED cliVars

\* From "selected_files = set()" to "processed_modules = set()": read and parse
\* the start file, find the target symbol, seed the queue.
ParseStart ==
    /\ pc = "index"
    /\ todo = {}
    /\ processed_modules' = {}
    /\ IF ~Content[start].ok
       THEN /\ result' = StartOnly(selected_files, start)
            /\ pc' = "done"
            /\ UNCHANGED <<selected_files, queue, addCount>>
       ELSE /\ selected_files' = AddSelected(selected_files, start)
            /\ addCount' = [addCount EXCEPT ![start] = @ + 1]
            /\ IF TargetIndices(Content[start].body, symbol_name) = {}
               THEN /\ result' = selected_files'
                    /\ pc' = "done"
                    /\ UNCHANGED queue
               ELSE /\ queue' = SeedQueue(get_imports(Content[start].body, start),
                                          UsedNames(Content[start].body, symbol_name))
                    /\ pc' = "bfs"
                    /\ UNCHANGED result
    /\ UNCHANGED <<files, start, symbol_name, todo, module_to_file, run, prev_result>>
    /\ UNCHANGED depVars
    /\ UNCHANGED pickVars
    /\ UNCHANGED cliVars

\* One iteration of "while queue".
BfsStep ==
    /\ pc = "bfs"
    /\ queue # <<>>
    /\ LET module == Head(queue)
           rest   == Tail(queue)
       IN  IF AlreadyProcessed(module, processed_modules)
           THEN /\ queue' = rest
                /\ UNCHANGED <<processed_modules, selected_files, addCount>>
           ELSE /\ processed_modules' = processed_modules \cup {module}
                /\ IF module \notin DOMAIN module_to_file
                   THEN /\ queue' = rest
                        /\ UNCHANGED <<selected_files, addCount>>
                   ELSE LET file_path == module_to_file[module]
                        IN  IF AlreadySelected(file_path, selected_files)
                            THEN /\ queue' = rest
                                 /\ UNCHANGED <<selected_files, addCount>>
                            ELSE /\ selected_files' = AddSelected(selected_files, file_path)
                                 /\ addCount' = [addCount EXCEPT ![file_path] = @ + 1]
                                 /\ queue' = rest \o Expansion(file_path)
    /\ UNCHANGED <<files, start, symbol_name, pc, todo, module_to_file, result,
                   run, prev_result>>
    /\ UNCHANGED depVars
    /\ UNCHANGED pickVars
    /\ UNCHANGED cliVars

\* "return selected_files" once the queue is empty
Return ==
    /\ pc = "bfs"
    /\ queue = <<>>
    /\ result' = selected_files
    /\ pc' = "done"
    /\ UNCHANGED <<files, start, symbol_name, todo, module_to_file, selected_files,
                   queue, processed_modules, addCount, run, prev_result>>
    /\ UNCHANGED depVars
    /\ UNCHANGED pickVars
    /\ UNCHANGED cliVars

\* The caller slices the same (root, start file, symbol) again: every local of
\* the function is fresh, the file tree is as it was.
Reinvoke ==
    /\ pc = "done"
    /\ run < MaxRuns
    /\ run' = run + 1
    /\ prev_result' = result
    /\ pc' = "index"
    /\ todo' = files
    /\ module_to_file' = EmptyMap
    /\ selected_files' = {}
    /\ queue' = <<>>
    /\ processed_modules' = {}
    /\ result' = {}
    /\ addCount' = [f \in AllFiles |-> 0]
    /\ UNCHANGED <<files, start, symbol_name>>
    /\ UNCHANGED depVars
    /\ UNCHANGED pickVars
    /\ UNCHANGED cliVars

NextSlice == MapFile \/ ParseStart \/ BfsStep \/ Return \/ Reinvoke

\* The function runs on one thread from call to return: a step that can be
\* taken is taken.
SpecSlice == InitSlice /\ [][NextSlice]_vars /\ WF_vars(NextSlice)

-----------------------------------------------------------------------------
(* The slicer's claims *)

\* the names of the top-level classes and functions of file f
TopLevelNames(f) ==
    {Content[f].body[i].name :
        i \in {j \in 1..Len(Content[f].body) : Content[f].body[j].kind = "def"}}

\* C1: resolve_slice_dependencies terminates on every file tree, import cycles
\* included (every invocation reaches its return), and selected_files.add is
\* called at most once per file.
C1_SliceTerminatesAddingOnce ==
    /\ [](\A f \in AllFiles : addCount[f] <= 1)
    /\ <>(pc = "done" /\ run = MaxRuns)

\* C1 witness: a.py imports b, b.py imports a; slicing a.py::f has followed the
\* import of b back to the start file and returned.
C1_Witness ==
    /\ pc = "done"
    /\ start = "a"
    /\ "b" \in result
    /\ Id("a") \in processed_modules
    /\ module_to_file[Id("a")] = "a"

\* C2: when the start file cannot be read or parsed, or no top-level class or
\* function of it is named symbol_name, the returned set is {start file}.
C2_MissingSymbolGivesStartOnly ==
    (pc = "done" /\ (~Content[start].ok \/ symbol_name \notin TopLevelNames(start)))
        => result = {start}

\* C2 witness: a.py, whose imports resolve to b.py, sliced for a symbol it does
\* not declare.
C2_Witness ==
    /\ pc = "done"
    /\ start = "a"
    /\ "b" \in files
    /\ symbol_name = Id("zz")
    /\ result = {"a"}

\* C3: at every step of the BFS the result set holds the start file and only
\* grows, and the returned set is its value when the queue is empty.
C3_ResultGrowsFromStart ==
    [][pc = "bfs" =>
          /\ start \in selected_files
          /\ selected_files \subseteq selected_files'
          /\ start \in selected_files'
          /\ (pc' = "done" => (queue = <<>> /\ result' = selected_files))]_vars

\* C3 witness: the BFS has added two files to the start file.
C3_Witness ==
    /\ pc = "done"
    /\ Cardinality(result) >= 3
    /\ start \in result

\* C4: a name the target symbol uses and the start file binds with a top-level
\* "from M import name" puts the file the index maps M to into the result.
C4_UsedFromImportIsSliced ==
    (pc = "done" /\ Content[start].ok) =>
        \A i \in 1..Len(Content[start].body) :
            LET n == Content[start].body[i]
            IN  (/\ n.kind = "from"
                 /\ n.level = 0
                 /\ symbol_name \in TopLevelNames(start)
                 /\ \E k \in 1..Len(n.names) :
                        BoundName(n.names[k]) \in UsedNames(Content[start].body, symbol_name)
                 /\ n.module \in DOMAIN module_to_file)
                => module_to_file[n.module] \in result

\* C4 witness: a.py has "from b import helper" and f calls helper(); slicing
\* a.py::f over {a.py, b.py} returns both.
C4_Witness ==
    /\ pc = "done"
    /\ files = {"a", "b"}
    /\ start = "a"
    /\ symbol_name = Id("f")
    /\ result = {"a", "b"}

\* C5 as claimed: once a key of the index is mapped to a file, no file
\* processed later replaces the mapping.
C5_FirstRegistrationWins ==
    [][\A k \in DOMAIN module_to_file :
          k \in DOMAIN module_to_file' => module_to_file'[k] = module_to_file[k]]_vars

\* C5 amended: a mapping is replaced only by a file whose full namespace path
\* is the key; a proper dotted suffix never replaces a mapping, and a file's
\* full namespace path maps to it once it is processed.
C5_OnlyFullNameReplaces ==
    [][/\ \A k \in DOMAIN module_to_file :
            (k \in DOMAIN module_to_file' /\ module_to_file'[k] # module_to_file[k])
                => (module_to_file'[k] \in todo \ todo' /\ k = FullModName(module_to_file'[k]))
       /\ \A f \in todo \ todo' :
            FullModName(f) # <<>> => module_to_file'[FullModName(f)] = f]_vars

\* C5 witness: x/m.py and y/m.py are both processed and the suffix "m" is kept
\* by one of them, and m.py is still to come.
C5_Witness ==
    /\ pc = "index"
    /\ {"xm", "ym"} \subseteq files \ todo
    /\ "m" \in todo
    /\ Id("m") \in DOMAIN module_to_file
    /\ module_to_file[Id("m")] \in {"xm", "ym"}

\* C6: slicing the same (root, start file, symbol) again over the unchanged
\* tree returns the same set.
C6_SameSliceTwice ==
    (pc = "done" /\ run > 1) => result = prev_result

\* the module strings of every entry of the import table of file f
ImportedModules(f) == Range(AllModules(get_imports(Content[f].body, f)))

\* C25: the returned set is closed under import resolution: for every file of
\* it other than the start file that could be read and parsed, every module
\* string of its import table the index maps to a file has that file in the
\* set, whether the name is used or not; a file the BFS adds that cannot be
\* read or parsed adds nothing to the queue.
C25_ResultClosedUnderImports ==
    /\ [](pc = "done" =>
            \A f \in result \ {start} :
                Content[f].ok =>
                    \A module \in ImportedModules(f) :
                        module \in DOMAIN module_to_file
                            => module_to_file[module] \in result)
    /\ [][\A f \in selected_files' \ selected_files :
             (pc = "bfs" /\ ~Content[f].ok) => queue' = Tail(queue)]_vars

\* C25 witness: a.py::g uses m; m.py is pulled in and its imports of x.m and
\* of b, which nothing uses, have put x/m.py and b.py into the result.
C25_Witness ==
    /\ pc = "done"
    /\ files = {"a", "b", "m", "xm"}
    /\ start = "a"
    /\ symbol_name = Id("g")
    /\ result = {"a", "b", "m", "xm"}

\* the import table has an entry for key whose list holds val
Keyed(imports, key, val) ==
    \E i \in 1..Len(imports) : imports[i].key = key /\ val \in Range(imports[i].vals)

\* the last segment of a dotted name
FinalSegment(name) == <<name[Len(name)]>>

\* the files whose import table the slicer has built
TablesBuilt == {f \in selected_files : Content[f].ok}

\* C26 as claimed: in the import table of a file an aliased import is keyed by
\* its alias and an unaliased "import a.b.c" by the final segment c, and the
\* key maps to the module string imported.
C26_UnaliasedKeyedByFinalSegment ==
    \A f \in TablesBuilt :
        \A i \in 1..Len(Content[f].body) :
            LET n == Content[f].body[i]
            IN  n.kind = "import" =>
                    \A k \in 1..Len(n.names) :
                        Keyed(get_imports(Content[f].body, f),
                              IF n.names[k].asname # NoneStr THEN n.names[k].asname
                              ELSE FinalSegment(n.names[k].name),
                              n.names[k].name)

\* C26 amended: an aliased import is keyed by its alias; an unaliased
\* "import a.b.c" is keyed by the whole dotted name a.b.c and by its first
\* segment a; a name of "from M import ..." is keyed by its alias, or by the
\* name when it has none; each key maps to the module string imported.
C26_UnaliasedKeyedByFullAndFirst ==
    \A f \in TablesBuilt :
        \A i \in 1..Len(Content[f].body) :
            LET n  == Content[f].body[i]
                t  == get_imports(Content[f].body, f)
            IN  \A k \in 1..Len(n.names) :
                    LET al == n.names[k]
                    IN  /\ (n.kind = "import" /\ al.asname # NoneStr)
                            => Keyed(t, al.asname, al.name)
                        /\ (n.kind = "import" /\ al.asname = NoneStr)
                            => /\ Keyed(t, al.name, al.name)
                               /\ Keyed(t, FirstDotted(al.name), al.name)
                        /\ n.kind = "from"
                            => Keyed(t, IF al.asname # NoneStr THEN al.asname ELSE al.name,
                                     FromModule(n, f))

\* C26 witness: the BFS has built the table of m.py, which has the unaliased
\* "import x.m" and the aliased "from b import helper as h".
C26_Witness ==
    /\ pc = "done"
    /\ start = "a"
    /\ "m" \in result
    /\ module_to_file[Id("m")] = "m"
    /\ Keyed(get_imports(Content["m"].body, "m"), Id("x"), <<"x", ".", "m">>)
    /\ Keyed(get_imports(Content["m"].body, "m"), Id("h"), Id("b"))

-----------------------------------------------------------------------------
(* The file lists the dependency mapper is run on *)

\* ast.Import; parent is the index of the enclosing class or function node (0:
\* the module), line is node.lineno
ImportNode(parent, line, names) ==
    [kind |-> "import", parent |-> parent, line |-> line, name |-> NoneStr,
     names |-> names, module |-> NoneStr, level |-> 0, bases |-> <<>>, calls |-> <<>>]

\* ast.ImportFrom
FromNode(parent, line, module, level, names) ==
    [kind |-> "from", parent |-> parent, line |-> line, name |-> NoneStr,
     names |-> names, module |-> module, level |-> level, bases |-> <<>>, calls |-> <<>>]

\* ast.ClassDef; bases are node.bases
ClassNode(parent, line, name, bases) ==
    [kind |-> "class", parent |-> parent, line |-> line, name |-> name,
     names |-> <<>>, module |-> NoneStr, level |-> 0, bases |-> bases, calls |-> <<>>]

\* ast.FunctionDef / ast.AsyncFunctionDef; calls are the ast.Call nodes of its
\* body outside any nested class or function
FuncNode(parent, line, name, calls) ==
    [kind |-> "func", parent |-> parent, line |-> line, name |-> name,
     names |-> <<>>, module |-> NoneStr, level |-> 0, bases |-> <<>>, calls |-> calls]

\* rel_path.parts of every candidate file
PyParts ==
    [ ri  |-> <<<<"__init__", ".", "py">>>>,
      pi  |-> <<<<"pkg">>, <<"__init__", ".", "py">>>>,
      pm  |-> <<<<"pkg">>, <<"mod", ".", "py">>>>,
      an  |-> <<<<"animals", ".", "py">>>>,
      zo  |-> <<<<"zoo", ".", "py">>>>,
      x   |-> <<<<"x", ".", "py">>>>,
      y   |-> <<<<"y", ".", "py">>>>,
      gh  |-> <<<<".", "github">>, <<"x", ".", "py">>>>,
      cy  |-> <<<<"cyc", ".", "py">>>>,
      bin |-> <<<<"bin", ".", "py">>>>,
      gone |-> <<<<"gone", ".", "py">>>>,
      bad |-> <<<<"bad", ".", "py">>>> ]
\* What open + ast.parse give for each candidate file: the import, class and
\* function nodes of the tree in document order, or how the two fail
\* ("decode": UnicodeDecodeError, "syntax": SyntaxError, "oserror": open
\* raises OSError, the file being gone).
PyContent ==
    [ ri  |-> [status |-> "ok", nodes |-> <<
                 ImportNode(0, 1, <<Alias(<<"os">>, NoneStr)>>)
             >>],
      pi  |-> [status |-> "ok", nodes |-> <<
                 FromNode(0, 1, <<"pkg">>, 0, <<Alias(<<"mod">>, NoneStr)>>),
                 FromNode(0, 2, NoneStr, 1, <<Alias(<<"mod">>, NoneStr)>>),
                 ImportNode(0, 3, <<Alias(<<"pkg", ".", "mod">>, <<"pm">>)>>)
             >>],
      pm  |-> [status |-> "ok", nodes |-> <<
                 ImportNode(0, 1, <<Alias(<<"animals">>, NoneStr), Alias(<<"os">>, NoneStr)>>),
                 FromNode(0, 2, <<"animals", ".", "sub">>, 0, <<Alias(<<"thing">>, NoneStr)>>),
                 ClassNode(0, 3, <<"Foo">>, <<[kind |-> "attr", text |-> <<"animals", ".", "Animal">>]>>),
                 FuncNode(3, 4, <<"run">>, <<[kind |-> "attr", value |-> <<"self">>, attr |-> <<"helper">>], [kind |-> "name", value |-> NoneStr, attr |-> <<"helper">>]>>),
                 FuncNode(3, 7, <<"helper">>, <<>>)
             >>],
      an  |-> [status |-> "ok", nodes |-> <<
                 ClassNode(0, 1, <<"Animal">>, <<>>),
                 FuncNode(1, 2, <<"speak">>, <<[kind |-> "attr", value |-> <<"self">>, attr |-> <<"speak">>]>>),
                 FuncNode(0, 4, <<"helper">>, <<[kind |-> "name", value |-> NoneStr, attr |-> <<"Animal">>]>>)
             >>],
      zo  |-> [status |-> "ok", nodes |-> <<
                 FromNode(0, 1, <<"animals">>, 0, <<Alias(<<"Animal">>, NoneStr)>>),
                 ClassNode(0, 2, <<"Dog">>, <<[kind |-> "name", text |-> <<"Animal">>]>>),
                 FuncNode(2, 3, <<"speak">>, <<[kind |-> "name", value |-> NoneStr, attr |-> <<"helper">>], [kind |-> "attr", value |-> <<"C">>, attr |-> <<"run">>]>>),
                 ClassNode(0, 6, <<"Animal">>, <<[kind |-> "name", text |-> <<"Animal">>]>>)
             >>],
      x   |-> [status |-> "ok", nodes |-> <<
                 ClassNode(0, 1, <<"C">>, <<>>),
                 FuncNode(1, 2, <<"run">>, <<[kind |-> "attr", value |-> <<"self">>, attr |-> <<"helper">>], [kind |-> "attr", value |-> <<"y">>, attr |-> <<"helper">>]>>),
                 ClassNode(1, 5, <<"Inner">>, <<>>),
                 FuncNode(3, 6, <<"run">>, <<>>),
                 FuncNode(0, 8, <<"run">>, <<[kind |-> "name", value |-> NoneStr, attr |-> <<"helper">>]>>),
                 FuncNode(5, 9, <<"helper">>, <<>>),
                 ClassNode(0, 12, <<"Inner">>, <<>>),
                 FuncNode(7, 13, <<"run">>, <<[kind |-> "attr", value |-> <<"C">>, attr |-> <<"run">>]>>)
             >>],
      y   |-> [status |-> "ok", nodes |-> <<
                 ImportNode(0, 1, <<Alias(<<"x">>, NoneStr)>>),
                 FuncNode(0, 2, <<"helper">>, <<[kind |-> "name", value |-> NoneStr, attr |-> <<"helper">>]>>),
                 FuncNode(0, 4, <<"helper">>, <<[kind |-> "attr", value |-> <<"x">>, attr |-> <<"run">>]>>)
             >>],
      gh  |-> [status |-> "ok", nodes |-> <<
                 ImportNode(0, 1, <<Alias(<<"os">>, NoneStr)>>),
                 FuncNode(0, 2, <<"f">>, <<>>)
             >>],
      cy  |-> [status |-> "ok", nodes |-> <<
                 ClassNode(0, 1, <<"R">>, <<>>),
                 ClassNode(0, 3, <<"A">>, <<>>),
                 ClassNode(0, 5, <<"A">>, <<[kind |-> "name", text |-> <<"R">>], [kind |-> "name", text |-> <<"A">>]>>)
             >>],
      bin |-> [status |-> "decode", nodes |-> <<
             >>],
      gone |-> [status |-> "oserror", nodes |-> <<
             >>],
      bad |-> [status |-> "syntax", nodes |-> <<
             >>] ]

PyFiles == DOMAIN PyParts

-----------------------------------------------------------------------------
(* Insertion-ordered dicts: sequences of [key, val] entries *)

DictKeys(d) == {d[i].key : i \in 1..Len(d)}

\* d[key]
DictGet(d, key) == d[CHOOSE i \in 1..Len(d) : d[i].key = key].val

\* d[key] = val: an existing key keeps its place
DictSet(d, key, val) ==
    IF key \in DictKeys(d)
    THEN [i \in 1..Len(d) |-> IF d[i].key = key THEN [key |-> key, val |-> val] ELSE d[i]]
    ELSE Append(d, [key |-> key, val |-> val])

\* d[key], d a defaultdict with default value dflt
DictGetOr(d, key, dflt) == IF key \in DictKeys(d) THEN DictGet(d, key) ELSE dflt

-----------------------------------------------------------------------------
(* DependencyMapper._build_project_modules *)

\* str(py_file.relative_to(self.root_path))
RelPathStr(f) == JoinWith(PyParts[f], "/")

\* module_name of one file
ModuleName(f) ==
    LET p == PyParts[f]
        n == Len(p)
    IN  IF p[n] = PyName("__init__")
        THEN Replace(IF n = 1 THEN <<".">> ELSE JoinWith(SubSeq(p, 1, n - 1), "/"), "/", ".")
        ELSE Replace(JoinWith([i \in 1..n |-> IF i = n THEN StripSuffix(p[i]) ELSE p[i]], "/"),
                     "/", ".")

\* what one iteration of the loop adds to self.project_modules
ModuleNamesOf(f) ==
    LET module_name == ModuleName(f)
        parts       == Split(module_name, ".")
    IN  IF module_name # <<".">>
        THEN {module_name} \cup {Join(SubSeq(parts, 1, i)) : i \in 1..(Len(parts) - 1)}
        ELSE {}

\* The loop returning after its first file.
BuildFirstOnly(mods, fs) ==
    IF fs = <<>> THEN mods ELSE mods \cup ModuleNamesOf(Head(fs))

\* the loop over self.python_files
RECURSIVE BuildModules(_, _)
BuildModules(mods, fs) ==
    IF fs = <<>> THEN mods
    ELSE BuildModules(mods \cup ModuleNamesOf(Head(fs)), Tail(fs))

-----------------------------------------------------------------------------
(* DependencyMapper.DependencyVisitor *)

\* f"{self.file_path}::{node.name}"
ClassKey(file_path, name) == file_path \o <<"::">> \o name

\* f"{self.file_path}::{self.current_class or ''}.{node.name}".strip('.')
FuncKey(file_path, current_class, name) ==
    Strip(file_path \o <<"::">> \o current_class \o <<".">> \o name, ".")

\* the indices of the nodes directly below node i, in document order
RECURSIVE ChildrenFrom(_, _, _)
ChildrenFrom(nodes, i, j) ==
    IF j > Len(nodes) THEN <<>>
    ELSE (IF nodes[j].parent = i THEN <<j>> ELSE <<>>) \o ChildrenFrom(nodes, i, j + 1)

Children(nodes, i) == ChildrenFrom(nodes, i, 1)

RECURSIVE ChildrenOfAll(_, _)
ChildrenOfAll(nodes, is) ==
    IF is = <<>> THEN <<>>
    ELSE Children(nodes, Head(is)) \o ChildrenOfAll(nodes, Tail(is))

\* ast.walk(node): the node, then the nodes below it level by level
RECURSIVE Walk(_, _)
Walk(nodes, frontier) ==
    IF frontier = <<>> THEN <<>>
    ELSE frontier \o Walk(nodes, ChildrenOfAll(nodes, frontier))

\* what one ast.Call appends to function_info.calls
CallToken(c, current_class) ==
    IF c.kind = "name" THEN <<c.attr>>
    ELSE IF c.kind = "attr"
    THEN IF c.value = Id("self") /\ current_class # NoneStr
         THEN <<c.attr>>
         ELSE <<c.value \o <<".">> \o c.attr>>
    ELSE <<>>

RECURSIVE CallTokens(_, _)
CallTokens(cs, current_class) ==
    IF cs = <<>> THEN <<>>
    ELSE CallToken(Head(cs), current_class) \o CallTokens(Tail(cs), current_class)

\* function_info.calls: the loop over ast.walk(node)
RECURSIVE CallsOfWalk(_, _, _)
CallsOfWalk(nodes, is, current_class) ==
    IF is = <<>> THEN <<>>
    ELSE CallTokens(nodes[Head(is)].calls, current_class)
         \o CallsOfWalk(nodes, Tail(is), current_class)

\* bases of visit_ClassDef: ast.Name gives its id, ast.Attribute its unparsed
\* text, anything else nothing
RECURSIVE BaseTokens(_)
BaseTokens(bs) ==
    IF bs = <<>> THEN <<>>
    ELSE (IF Head(bs).kind \in {"name", "attr"} THEN <<Head(bs).text>> ELSE <<>>)
         \o BaseTokens(Tail(bs))

\* methods of visit_ClassDef: the functions directly in node.body
RECURSIVE MethodNames(_, _)
MethodNames(nodes, is) ==
    IF is = <<>> THEN <<>>
    ELSE (IF nodes[Head(is)].kind = "func" THEN <<nodes[Head(is)].name>> ELSE <<>>)
         \o MethodNames(nodes, Tail(is))

\* "alias.name not in self.mapper.project_modules"
IsExternal(module, mods) == module \notin mods

\* visit_Import: one ImportInfo per alias, from alias k on
RECURSIVE ImportInfos(_, _, _, _)
ImportInfos(names, k, line, mods) ==
    IF k > Len(names) THEN <<>>
    ELSE <<[module |-> names[k].name, alias |-> names[k].asname,
            is_from_import |-> FALSE, imported_names |-> <<>>,
            is_external |-> IsExternal(names[k].name, mods), line_number |-> line]>>
         \o ImportInfos(names, k + 1, line, mods)

\* visit_ImportFrom: one ImportInfo per statement that names a module
FromInfos(n, mods) ==
    IF n.module # NoneStr
    THEN <<[module |-> n.module, alias |-> NoneStr, is_from_import |-> TRUE,
            imported_names |-> [k \in 1..Len(n.names) |-> n.names[k].name],
            is_external |-> IsExternal(n.module, mods), line_number |-> n.line]>>
    ELSE <<>>

\* What visit_Import, visit_ImportFrom, visit_ClassDef or _visit_function_def
\* records in the analysis an = [imports, classes, functions] for node i of file
\* f, visited with self.current_class = current_class.
VisitNode(an, f, nodes, i, current_class, mods) ==
    LET n         == nodes[i]
        file_path == RelPathStr(f)
    IN  CASE n.kind = "import" ->
               [an EXCEPT !.imports = DictSet(@, file_path,
                   DictGet(@, file_path) \o ImportInfos(n.names, 1, n.line, mods))]
          [] n.kind = "from" ->
               [an EXCEPT !.imports = DictSet(@, file_path,
                   DictGet(@, file_path) \o FromInfos(n, mods))]
          [] n.kind = "class" ->
               [an EXCEPT !.classes = DictSet(@, ClassKey(file_path, n.name),
                   [name |-> n.name, file_path |-> file_path,
                    bases |-> BaseTokens(n.bases),
                    methods |-> MethodNames(nodes, Children(nodes, i)),
                    line_number |-> n.line])]
          [] OTHER ->
               [an EXCEPT !.functions = DictSet(@, FuncKey(file_path, current_class, n.name),
                   [name |-> n.name, file_path |-> file_path,
                    calls |-> CallsOfWalk(nodes, Walk(nodes, <<i>>), current_class),
                    called_by |-> <<>>, line_number |-> n.line,
                    is_method |-> current_class # NoneStr,
                    class_name |-> current_class])]

\* visit_ClassDef leaving self.current_class as it was.
KeepClass(nodes, i, current_class) == current_class

\* self.current_class while the body of node i is visited
ClassBelow(nodes, i, current_class) ==
    IF nodes[i].kind = "class" THEN nodes[i].name ELSE current_class

\* generic_visit over the nodes is, in order: each node is visited, and then,
\* through its own generic_visit, the nodes below it
RECURSIVE VisitAll(_, _, _, _, _, _)
VisitAll(an, f, nodes, is, current_class, mods) ==
    IF is = <<>> THEN an
    ELSE LET i     == Head(is)
             own   == VisitNode(an, f, nodes, i, current_class, mods)
             below == VisitAll(own, f, nodes, Children(nodes, i),
                               ClassBelow(nodes, i, current_class), mods)
         IN  VisitAll(below, f, nodes, Tail(is), current_class, mods)

\* Whether _analyze_file(f) raises: open fails with an OSError, which
\* _analyze_file does not catch.
Raises(f) == PyContent[f].status = "oserror"

\* _analyze_file losing what was extracted so far when a file fails.
AnalyzeOneFailureClears(an, f, mods) ==
    IF PyContent[f].status # "ok"
    THEN [imports |-> <<>>, classes |-> <<>>, functions |-> <<>>]
    ELSE VisitAll([an EXCEPT !.imports = DictSet(@, RelPathStr(f), <<>>)],
                  f, PyContent[f].nodes, Children(PyContent[f].nodes, 0), NoneStr, mods)

\* _analyze_file: nothing for a file that cannot be opened, decoded or parsed
AnalyzeOne(an, f, mods) ==
    IF PyContent[f].status # "ok" THEN an
    ELSE VisitAll([an EXCEPT !.imports = DictSet(@, RelPathStr(f), <<>>)],
                  f, PyContent[f].nodes, Children(PyContent[f].nodes, 0), NoneStr, mods)

-----------------------------------------------------------------------------
(* DependencyMapper._build_relationships *)

\* the loop over one file's imports, from import k on
RECURSIVE InternalModules(_, _)
InternalModules(infos, k) ==
    IF k > Len(infos) THEN {}
    ELSE (IF ~infos[k].is_external THEN {infos[k].module} ELSE {})
         \cup InternalModules(infos, k + 1)

\* "Build file dependencies from imports", from file i on
RECURSIVE BuildFileDependencies(_, _, _)
BuildFileDependencies(deps, imps, i) ==
    IF i > Len(imps) THEN deps
    ELSE LET internal == InternalModules(imps[i].val, 1)
         IN  BuildFileDependencies(
                 IF internal # {}
                 THEN DictSet(deps, imps[i].key, DictGetOr(deps, imps[i].key, {}) \cup internal)
                 ELSE deps,
                 imps, i + 1)

\* The base test comparing the last segment of a dotted token with the name.
BaseMatchesFinalSegment(other_key, other_class, base) ==
    \/ other_class.name = base
    \/ (Len(base) > 1 /\ other_class.name = <<base[Len(base)]>>)
    \/ EndsWith(other_key, <<".">> \o base)

\* "other_class.name == base or other_key.endswith(f'.{base}')"
BaseMatches(other_key, other_class, base) ==
    \/ other_class.name = base
    \/ EndsWith(other_key, <<".">> \o base)

\* The loop over class_info.bases taking the last matching class, not the first.
RECURSIVE InheritBasesLastMatch(_, _, _, _, _)
InheritBasesLastMatch(tree, cls, class_key, bases, k) ==
    IF k > Len(bases) THEN tree
    ELSE LET hits == {j \in 1..Len(cls) : BaseMatches(cls[j].key, cls[j].val, bases[k])}
         IN  InheritBasesLastMatch(
                 IF hits # {}
                 THEN LET other_key == cls[CHOOSE j \in hits : \A h \in hits : h <= j].key
                      IN  DictSet(tree, other_key,
                                  Append(DictGetOr(tree, other_key, <<>>), class_key))
                 ELSE tree,
                 cls, class_key, bases, k + 1)

\* the loop over class_info.bases, from base k on
RECURSIVE InheritBases(_, _, _, _, _)
InheritBases(tree, cls, class_key, bases, k) ==
    IF k > Len(bases) THEN tree
    ELSE LET hits == {j \in 1..Len(cls) : BaseMatches(cls[j].key, cls[j].val, bases[k])}
         IN  InheritBases(
                 IF hits # {}
                 THEN LET other_key == cls[CHOOSE j \in hits : \A h \in hits : j <= h].key
                      IN  DictSet(tree, other_key,
                                  Append(DictGetOr(tree, other_key, <<>>), class_key))
                 ELSE tree,
                 cls, class_key, bases, k + 1)

\* "Build inheritance tree", from class i on
RECURSIVE BuildInheritance(_, _, _)
BuildInheritance(tree, cls, i) ==
    IF i > Len(cls) THEN tree
    ELSE BuildInheritance(InheritBases(tree, cls, cls[i].key, cls[i].val.bases, 1),
                          cls, i + 1)

\* The callee test with rule 3 comparing the function's name, not its key.
CallMatchesByName(func_info, other_key, other_func, call) ==
    LET same_file  == func_info.file_path = other_func.file_path
        same_class == func_info.class_name = other_func.class_name
    IN  \/ (other_func.name = call /\ same_file /\ same_class)
        \/ (other_func.name = call /\ same_file
              /\ func_info.class_name = NoneStr /\ other_func.class_name = NoneStr)
        \/ (other_func.name = call /\ ~same_file)

\* The callee test looking at the name alone.
CallMatchesNameOnly(func_info, other_key, other_func, call) == other_func.name = call

\* the condition under which other_func is taken as the callee of call
CallMatches(func_info, other_key, other_func, call) ==
    LET same_file  == func_info.file_path = other_func.file_path
        same_class == func_info.class_name = other_func.class_name
    IN  \/ (other_func.name = call /\ same_file /\ same_class)
        \/ (other_func.name = call /\ same_file
              /\ func_info.class_name = NoneStr /\ other_func.class_name = NoneStr)
        \/ (EndsWith(other_key, <<"::">> \o call) /\ ~same_file)

\* The loop over func_info.calls without "if other_key == func_key: continue".
RECURSIVE ResolveCallsWithSelf(_, _, _)
ResolveCallsWithSelf(st, i, k) ==
    LET fns == st.functions
    IN  IF k > Len(fns[i].val.calls) THEN st
        ELSE LET call == fns[i].val.calls[k]
                 hits == {j \in 1..Len(fns) :
                             CallMatches(fns[i].val, fns[j].key, fns[j].val, call)}
             IN  IF hits = {} THEN ResolveCallsWithSelf(st, i, k + 1)
                 ELSE LET j == CHOOSE h \in hits : \A g \in hits : h <= g
                      IN  ResolveCallsWithSelf(
                              [functions |->
                                   [fns EXCEPT ![j].val.called_by = Append(@, fns[i].key)],
                               graph |->
                                   DictSet(st.graph, fns[i].key,
                                           DictGetOr(st.graph, fns[i].key, {}) \cup {fns[j].key})],
                              i, k + 1)

\* the loop over func_info.calls of function i, from call k on; st is
\* [functions, graph]
RECURSIVE ResolveCalls(_, _, _)
ResolveCalls(st, i, k) ==
    LET fns == st.functions
    IN  IF k > Len(fns[i].val.calls) THEN st
        ELSE LET call == fns[i].val.calls[k]
                 hits == {j \in 1..Len(fns) :
                             /\ fns[j].key # fns[i].key
                             /\ CallMatches(fns[i].val, fns[j].key, fns[j].val, call)}
             IN  IF hits = {} THEN ResolveCalls(st, i, k + 1)
                 ELSE LET j == CHOOSE h \in hits : \A g \in hits : h <= g
                      IN  ResolveCalls(
                              [functions |->
                                   [fns EXCEPT ![j].val.called_by = Append(@, fns[i].key)],
                               graph |->
                                   DictSet(st.graph, fns[i].key,
                                           DictGetOr(st.graph, fns[i].key, {}) \cup {fns[j].key})],
                              i, k + 1)

\* "Build function call graph", from function i on
RECURSIVE BuildCallGraph(_, _)
BuildCallGraph(st, i) ==
    IF i > Len(st.functions) THEN st
    ELSE BuildCallGraph(ResolveCalls(st, i, 1), i + 1)

-----------------------------------------------------------------------------
(* DependencyMapper.analyze *)

\* The slicer when only the mapper is run.
SliceIdle ==
    /\ files = {}
    /\ start = "a"
    /\ symbol_name = NoneStr
    /\ pc = "idle"
    /\ todo = {}
    /\ module_to_file = EmptyMap
    /\ selected_files = {}
    /\ queue = <<>>
    /\ processed_modules = {}
    /\ result = {}
    /\ addCount = [f \in AllFiles |-> 0]
    /\ run = 0
    /\ prev_result = {}

\* the lists of up to MaxPyFiles distinct candidate files
FileLists ==
    UNION {{fs \in [1..n -> PyFiles] : \A i, j \in 1..n : fs[i] = fs[j] => i = j} :
              n \in 1..MaxPyFiles}

\* DependencyMapper(root) followed by the entry of analyze(file_paths)
InitDeps ==
    /\ SliceIdle
    /\ PickIdle
    /\ CliIdle
    /\ python_files \in FileLists
    /\ dpc = "build"
    /\ next_file = 1
    /\ analyze_calls = 1
    /\ project_modules = {}
    /\ analysis_imports = <<>>
    /\ analysis_classes = <<>>
    /\ analysis_functions = <<>>
    /\ file_dependencies = <<>>
    /\ inheritance_tree = <<>>
    /\ function_call_graph = <<>>
    /\ notices = <<>>
    /\ call_stack = <<>>

\* self._build_project_modules()
BuildProjectModules ==
    /\ dpc = "build"
    /\ project_modules' = BuildModules(project_modules, python_files)
    /\ dpc' = "files"
    /\ UNCHANGED <<python_files, next_file, analyze_calls, analysis_imports,
                   analysis_classes, analysis_functions, file_dependencies,
                   inheritance_tree, function_call_graph, notices, call_stack>>
    /\ UNCHANGED sliceVars
    /\ UNCHANGED pickVars
    /\ UNCHANGED cliVars

\* one iteration of "for file_path in self.python_files": _analyze_file, and
\* the warning printed when it raises
AnalyzeFile ==
    /\ dpc = "files"
    /\ next_file <= Len(python_files)
    /\ LET an == AnalyzeOne([imports |-> analysis_imports, classes |-> analysis_classes,
                             functions |-> analysis_functions],
                            python_files[next_file], project_modules)
       IN  /\ analysis_imports' = an.imports
           /\ analysis_classes' = an.classes
           /\ analysis_functions' = an.functions
    /\ notices' = IF Raises(python_files[next_file])
                   THEN Append(notices, python_files[next_file])
                   ELSE notices
    /\ next_file' = next_file + 1
    /\ UNCHANGED <<python_files, dpc, analyze_calls, project_modules, file_dependencies,
                   inheritance_tree, function_call_graph, call_stack>>
    /\ UNCHANGED sliceVars
    /\ UNCHANGED pickVars
    /\ UNCHANGED cliVars

\* self._build_relationships() and "return self.analysis"
BuildRelationships ==
    /\ dpc = "files"
    /\ next_file > Len(python_files)
    /\ file_dependencies' = BuildFileDependencies(file_dependencies, analysis_imports, 1)
    /\ inheritance_tree' = BuildInheritance(inheritance_tree, analysis_classes, 1)
    /\ LET st == BuildCallGraph([functions |-> analysis_functions,
                                 graph |-> function_call_graph], 1)
       IN  /\ analysis_functions' = st.functions
           /\ function_call_graph' = st.graph
    /\ dpc' = "returned"
    /\ UNCHANGED <<python_files, next_file, analyze_calls, project_modules,
                   analysis_imports, analysis_classes, notices, call_stack>>
    /\ UNCHANGED sliceVars
    /\ UNCHANGED pickVars
    /\ UNCHANGED cliVars

\* analyze(file_paths) called again on the same mapper with the same list:
\* self.analysis and self.project_modules are those of the first call
AnalyzeAgain ==
    /\ dpc = "returned"
    /\ call_stack = <<>>
    /\ analyze_calls < MaxAnalyses
    /\ analyze_calls' = analyze_calls + 1
    /\ dpc' = "build"
    /\ next_file' = 1
    /\ UNCHANGED <<python_files, project_modules, analysis_imports, analysis_classes,
                   analysis_functions, file_dependencies, inheritance_tree,
                   function_call_graph, notices, call_stack>>
    /\ UNCHANGED sliceVars
    /\ UNCHANGED pickVars
    /\ UNCHANGED cliVars

\* root_classes of format_dependency_analysis: the classes that are the child
\* of no edge
RootClasses ==
    {k \in DictKeys(analysis_classes) :
        \A i \in 1..Len(inheritance_tree) : k \notin Range(inheritance_tree[i].val)}

\* what the calls of format_dependency_analysis leave alone
RenderFrame ==
    /\ UNCHANGED <<python_files, dpc, next_file, analyze_calls, project_modules,
                   analysis_imports, analysis_classes, analysis_functions,
                   file_dependencies, inheritance_tree, function_call_graph, notices>>
    /\ UNCHANGED sliceVars
    /\ UNCHANGED pickVars
    /\ UNCHANGED cliVars

\* format_dependency_analysis(analysis): format_inheritance_tree(root) for a
\* root class
FormatRoot ==
    /\ dpc = "returned"
    /\ call_stack = <<>>
    /\ \E root \in RootClasses : call_stack' = <<root>>
    /\ RenderFrame

\* format_inheritance_tree(child, level + 1) for a child of the class being
\* formatted
FormatChild ==
    /\ call_stack # <<>>
    /\ Len(call_stack) < RecursionLimit
    /\ \E child \in Range(DictGetOr(inheritance_tree, call_stack[Len(call_stack)], <<>>)) :
          call_stack' = Append(call_stack, child)
    /\ RenderFrame

\* "return lines" of format_inheritance_tree
FormatReturn ==
    /\ call_stack # <<>>
    /\ call_stack' = SubSeq(call_stack, 1, Len(call_stack) - 1)
    /\ RenderFrame

NextDeps ==
    \/ BuildProjectModules
    \/ AnalyzeFile
    \/ BuildRelationships
    \/ AnalyzeAgain
    \/ FormatRoot
    \/ FormatChild
    \/ FormatReturn

SpecDeps == InitDeps /\ [][NextDeps]_vars

-----------------------------------------------------------------------------
(* The mapper's claims *)

\* the dotted module name of a file: its directories and its stem joined by
\* dots, or its directories alone for an __init__.py
DottedName(f) ==
    LET p    == PyParts[f]
        n    == Len(p)
        stem == SubSeq(p[n], 1, Len(p[n]) - 2)
    IN  IF stem = Id("__init__") THEN Join(SubSeq(p, 1, n - 1))
        ELSE Join(SubSeq(p, 1, n - 1) \o <<stem>>)

\* a dotted name and its proper dotted prefixes: what stands before each dot
WithDottedPrefixes(name) ==
    {name} \cup {SubSeq(name, 1, k - 1) : k \in {i \in 1..Len(name) : name[i] = "."}}

\* the names the claim expects for a set of files
ProjectNames(fs) ==
    UNION {WithDottedPrefixes(DottedName(f)) : f \in {g \in fs : PyParts[g] # <<PyName("__init__")>>}}

\* the import records of the analysis
ImportRecords ==
    UNION {Range(analysis_imports[i].val) : i \in 1..Len(analysis_imports)}

\* C7: the is_external flag of every import record is decided by its module
\* string and the module names of all the files given, whatever the order in
\* which the files are analysed.
C7_ExternalIsOrderFree ==
    \A r \in ImportRecords : r.is_external = (r.module \notin ProjectNames(Range(python_files)))

\* C7 witness: zoo.py is analysed before animals.py and its import of animals
\* is internal.
C7_Witness ==
    /\ dpc = "files"
    /\ python_files = <<"zo", "an">>
    /\ next_file = 2
    /\ \E r \in ImportRecords : r.module = Id("animals") /\ ~r.is_external

\* Whether the namespace builder has run.
BuilderHasRun == dpc \in {"files", "returned"}

\* C8: after the namespace builder has run, project_modules is the dotted
\* module name of every file and its proper dotted prefixes, the empty name is
\* not in it, and no name of a class or function is.
C8_ProjectModulesExact ==
    BuilderHasRun =>
        /\ project_modules = ProjectNames(Range(python_files))
        /\ <<>> \notin project_modules
        /\ \A i \in 1..Len(analysis_classes) :
              \A f \in Range(python_files) :
                  RelPathStr(f) = analysis_classes[i].val.file_path
                      => DottedName(f) \o <<".">> \o analysis_classes[i].val.name
                            \notin project_modules

\* the indices of the nodes of kind k of file f
NodesOfKind(f, k) ==
    {i \in 1..Len(PyContent[f].nodes) : PyContent[f].nodes[i].kind = k}

\* the name of the innermost class around node i, or none
RECURSIVE InnermostClass(_, _)
InnermostClass(nodes, i) ==
    LET p == nodes[i].parent
    IN  IF p = 0 THEN NoneStr
        ELSE IF nodes[p].kind = "class" THEN nodes[p].name
        ELSE InnermostClass(nodes, p)

\* the key a declaration of file f is recorded under: file and name for a
\* class; file, innermost class (or nothing) and name, rid of the dots at its
\* two ends, for a function
DeclKey(f, i) ==
    LET n == PyContent[f].nodes[i]
    IN  IF n.kind = "class" THEN RelPathStr(f) \o <<"::">> \o n.name
        ELSE Strip(RelPathStr(f) \o <<"::">> \o InnermostClass(PyContent[f].nodes, i)
                       \o <<".">> \o n.name, ".")

\* the entries of the dict d that belong to file f
EntriesOf(d, f) == {i \in 1..Len(d) : d[i].val.file_path = RelPathStr(f)}

ParsedFiles == {f \in Range(python_files) : PyContent[f].status = "ok"}

\* C9 as claimed: every class and every function declaration of a parsed file
\* has an entity of its own.
C9_OneEntityPerDeclaration ==
    dpc = "returned" =>
        \A f \in ParsedFiles :
            /\ Cardinality(EntriesOf(analysis_classes, f)) = Cardinality(NodesOfKind(f, "class"))
            /\ Cardinality(EntriesOf(analysis_functions, f)) = Cardinality(NodesOfKind(f, "func"))

\* what C9 amended asks of one dict and the declarations of kind k
OnePerKey(d, f, k) ==
    /\ {d[i].key : i \in EntriesOf(d, f)} = {DeclKey(f, i) : i \in NodesOfKind(f, k)}
    /\ \A i, j \in EntriesOf(d, f) : d[i].key = d[j].key => i = j
    /\ \A i \in EntriesOf(d, f) :
          LET same == {j \in NodesOfKind(f, k) : DeclKey(f, j) = d[i].key}
          IN  /\ same # {}
              /\ d[i].val.line_number =
                     PyContent[f].nodes[CHOOSE j \in same : \A h \in same : h <= j].line

\* C9 amended: each declaration is recorded under its key (file and name for a
\* class; file, innermost enclosing class and name for a function), there is
\* one entity per key, and it is that of the last declaration with the key.
C9_OneEntityPerKey ==
    dpc = "returned" =>
        \A f \in ParsedFiles :
            /\ OnePerKey(analysis_classes, f, "class")
            /\ OnePerKey(analysis_functions, f, "func")

\* C9 witness: x.py declares class Inner twice (inside C and at top level) and
\* the entity under x.py::Inner is the top-level one.
C9_Witness ==
    /\ dpc = "returned"
    /\ "x" \in Range(python_files)
    /\ \E i \in 1..Len(analysis_classes) :
          /\ analysis_classes[i].key = <<"x", ".", "py", "::", "Inner">>
          /\ analysis_classes[i].val.line_number = 12

\* C10: a second run of _build_relationships over the same entities leaves
\* the inheritance edges and the call edges as the first run left them.
C10_SecondResolveChangesNothing ==
    [][(dpc = "files" /\ dpc' = "returned" /\ analyze_calls > 1)
          => /\ inheritance_tree' = inheritance_tree
             /\ function_call_graph' = function_call_graph]_vars

\* the function entities of the analysis named nm, outside file f and outside
\* any class
TopLevelElsewhere(f, nm) ==
    {analysis_functions[e].key : e \in
        {j \in 1..Len(analysis_functions) :
            /\ analysis_functions[j].val.name = nm
            /\ analysis_functions[j].val.file_path # RelPathStr(f)
            /\ analysis_functions[j].val.class_name = NoneStr}}

\* whether the class cls of file f declares a function named nm
DeclaresMethod(f, cls, nm) ==
    \E j \in NodesOfKind(f, "func") :
        /\ InnermostClass(PyContent[f].nodes, j) = cls
        /\ PyContent[f].nodes[j].name = nm

\* the calls self.<name>() of declaration i of file f that its class has no
\* method for
UnboundSelfCalls(f, i) ==
    LET n   == PyContent[f].nodes[i]
        cls == InnermostClass(PyContent[f].nodes, i)
    IN  IF cls = NoneStr THEN {}
        ELSE {n.calls[k].attr : k \in
                 {h \in 1..Len(n.calls) :
                     /\ n.calls[h].kind = "attr"
                     /\ n.calls[h].value = Id("self")
                     /\ ~DeclaresMethod(f, cls, n.calls[h].attr)}}

\* C11: a call self.helper() in a method of a class that has no method helper
\* gives no call edge to a top-level function helper of another file.
C11_SelfCallStaysInClass ==
    dpc = "returned" =>
        \A f \in ParsedFiles : \A i \in NodesOfKind(f, "func") :
            \A nm \in UnboundSelfCalls(f, i) :
                DictGetOr(function_call_graph, DeclKey(f, i), {})
                    \cap TopLevelElsewhere(f, nm) = {}

\* C11 witness: x.py and y.py are analysed, C.run of x.py calls self.helper(),
\* C has no helper, y.py has the top-level helper, and the resolver has run.
C11_Witness ==
    /\ dpc = "returned"
    /\ Range(python_files) = {"x", "y"}
    /\ \E i \in NodesOfKind("x", "func") :
          /\ DeclKey("x", i) = <<"x", ".", "py", "::", "C", ".", "run">>
          /\ Id("helper") \in UnboundSelfCalls("x", i)
    /\ <<"y", ".", "py", "::", ".", "helper">> \in TopLevelElsewhere("x", Id("helper"))

\* how often the edge base_key -> derived_key is in the tree
EdgeCount(tree, base_key, derived_key) ==
    LET l == DictGetOr(tree, base_key, <<>>)
    IN  Cardinality({i \in 1..Len(l) : l[i] = derived_key})

\* the key of the first analysed class whose simple name is the token, or none
FirstNamed(cls, token) ==
    LET hits == {j \in 1..Len(cls) : cls[j].val.name = token}
    IN  IF hits = {} THEN NoneStr
        ELSE cls[CHOOSE j \in hits : \A h \in hits : j <= h].key

\* C12: one run of the resolver adds, for each base token of each class, one
\* edge from the first analysed class of that simple name to the class, and no
\* edge for a token no analysed class has as its name.
C12_OneEdgePerBaseToken ==
    [][(dpc = "files" /\ dpc' = "returned") =>
          /\ DictKeys(inheritance_tree') \subseteq DictKeys(analysis_classes)
          /\ \A b, d \in 1..Len(analysis_classes) :
                LET bases == analysis_classes[d].val.bases
                IN  EdgeCount(inheritance_tree', analysis_classes[b].key, analysis_classes[d].key)
                      = EdgeCount(inheritance_tree, analysis_classes[b].key, analysis_classes[d].key)
                        + Cardinality({n \in 1..Len(bases) :
                              FirstNamed(analysis_classes, bases[n]) = analysis_classes[b].key})]_vars

\* C12 witness: animals.py then zoo.py analysed once, with the edge
\* animals.py::Animal -> zoo.py::Dog once in the tree.
C12_Witness ==
    /\ dpc = "returned"
    /\ analyze_calls = 1
    /\ python_files = <<"an", "zo">>
    /\ EdgeCount(inheritance_tree, <<"animals", ".", "py", "::", "Animal">>,
                 <<"zoo", ".", "py", "::", "Dog">>) = 1

\* the files of the list that fail to open, decode or parse
FailedFiles == {f \in Range(python_files) : PyContent[f].status # "ok"}

\* how many import records the statements of file f give
RECURSIVE ImportCount(_, _)
ImportCount(nodes, i) ==
    IF i > Len(nodes) THEN 0
    ELSE (CASE nodes[i].kind = "import" -> Len(nodes[i].names)
            [] nodes[i].kind = "from" -> IF nodes[i].module = NoneStr THEN 0 ELSE 1
            [] OTHER -> 0)
         + ImportCount(nodes, i + 1)

\* what C13 asks of the analysis analyze returns
FailuresLeaveTheRest ==
    /\ \A f \in FailedFiles :
          /\ RelPathStr(f) \notin DictKeys(analysis_imports)
          /\ EntriesOf(analysis_classes, f) = {}
          /\ EntriesOf(analysis_functions, f) = {}
    /\ \A f \in ParsedFiles :
          /\ RelPathStr(f) \in DictKeys(analysis_imports)
          /\ Len(DictGet(analysis_imports, RelPathStr(f))) = ImportCount(PyContent[f].nodes, 1)
          /\ {analysis_classes[i].key : i \in EntriesOf(analysis_classes, f)}
                = {DeclKey(f, i) : i \in NodesOfKind(f, "class")}
          /\ {analysis_functions[i].key : i \in EntriesOf(analysis_functions, f)}
                = {DeclKey(f, i) : i \in NodesOfKind(f, "func")}

\* C13: the step of analyze's loop on a file that fails to decode or parse
\* changes no entity and goes on to the next file, and when analyze has built
\* the relationships and returned, no import, class or function entity is of
\* a failed file and those of every other file are all there.
C13_FailedFileIsSkipped ==
    [][/\ (dpc = "files" /\ next_file <= Len(python_files)
              /\ python_files[next_file] \in FailedFiles)
          => /\ dpc' = "files"
             /\ next_file' = next_file + 1
             /\ <<analysis_imports, analysis_classes, analysis_functions>>'
                   = <<analysis_imports, analysis_classes, analysis_functions>>
       /\ (dpc' = "returned" => FailuresLeaveTheRest')]_vars

\* C13 witness: analyze has returned for a list with animals.py before a
\* file that does not parse, and animals.py's class Animal is there.
C13_Witness ==
    /\ dpc = "returned"
    /\ \E i, j \in 1..Len(python_files) :
          /\ i < j
          /\ python_files[i] = "an"
          /\ PyContent[python_files[j]].status \in {"decode", "syntax"}
    /\ <<"animals", ".", "py", "::", "Animal">> \in DictKeys(analysis_classes)

\* C14: when analyze returns, each file that failed to decode or parse has
\* had one notice printed for it.
C14_NoticePerFailedFile ==
    (dpc = "returned" /\ analyze_calls = 1) =>
        \A f \in Range(python_files) :
            PyContent[f].status \in {"decode", "syntax"}
                => Cardinality({i \in 1..Len(notices) : notices[i] = f}) = 1

\* _analyze_file over the list fs from file i on
RECURSIVE AnalyzeAll(_, _, _, _)
AnalyzeAll(an, fs, i, mods) ==
    IF i > Len(fs) THEN an
    ELSE AnalyzeAll(AnalyzeOne(an, fs[i], mods), fs, i + 1, mods)

\* the edges of a tree or graph, as pairs
EdgesOfTree(tree) ==
    UNION {{<<tree[i].key, tree[i].val[k]>> : k \in 1..Len(tree[i].val)} : i \in 1..Len(tree)}

EdgesOfGraph(graph) ==
    UNION {{<<graph[i].key, c>> : c \in graph[i].val} : i \in 1..Len(graph)}

\* the inheritance and call edges of a first analyze(fs) on a new mapper
EdgesFor(fs) ==
    LET mods == BuildModules({}, fs)
        an   == AnalyzeAll([imports |-> <<>>, classes |-> <<>>, functions |-> <<>>],
                           fs, 1, mods)
    IN  [inherits |-> EdgesOfTree(BuildInheritance(<<>>, an.classes, 1)),
         calls    |-> EdgesOfGraph(BuildCallGraph([functions |-> an.functions,
                                                   graph |-> <<>>], 1).graph)]

\* C15: the inheritance and call edges are those of any other order of the
\* same file paths.
C15_EdgesFreeOfFileOrder ==
    (dpc = "returned" /\ analyze_calls = 1) =>
        \A gs \in FileLists :
            Range(gs) = Range(python_files) =>
                /\ EdgesFor(gs).inherits = EdgesOfTree(inheritance_tree)
                /\ EdgesFor(gs).calls = EdgesOfGraph(function_call_graph)

\* the rule of the resolver, 1 to 3, by which the function entity c is a
\* callee of the token call made by the function entity f; 4 when by none
RuleOf(f, c, call) ==
    IF c.val.name = call /\ c.val.file_path = f.val.file_path
          /\ c.val.class_name = f.val.class_name THEN 1
    ELSE IF c.val.name = call /\ c.val.file_path = f.val.file_path
          /\ c.val.class_name = NoneStr /\ f.val.class_name = NoneStr THEN 2
    ELSE IF c.val.file_path # f.val.file_path /\ EndsWith(c.key, <<"::">> \o call) THEN 3
    ELSE 4

\* the candidates of a token: the other function entities some rule admits
Candidates(f, call) ==
    {c \in Range(analysis_functions) : c.key # f.key /\ RuleOf(f, c, call) < 4}

\* whether c is a candidate of the best rule any candidate of the token has
IsBestCandidate(f, c, call) ==
    /\ c \in Candidates(f, call)
    /\ \A o \in Candidates(f, call) : RuleOf(f, c, call) <= RuleOf(f, o, call)

\* C23: every token that has a candidate gives an edge to a candidate of the
\* best rule any of its candidates satisfies, and every edge is to such a
\* candidate of some token: no candidate of a lower rule is taken while one of
\* a higher rule exists.
C23_EdgeFollowsRulePriority ==
    dpc = "returned" =>
        \A f \in Range(analysis_functions) :
            LET edges == DictGetOr(function_call_graph, f.key, {})
            IN  /\ \A k \in 1..Len(f.val.calls) :
                      Candidates(f, f.val.calls[k]) # {} =>
                          \E c \in Range(analysis_functions) :
                              c.key \in edges /\ IsBestCandidate(f, c, f.val.calls[k])
                /\ \A e \in edges :
                      \E c \in Range(analysis_functions), k \in 1..Len(f.val.calls) :
                          c.key = e /\ IsBestCandidate(f, c, f.val.calls[k])

\* C23 witness: zoo.py and x.py are analysed; Dog.speak's call C.run() has
\* its rule 3 edge to x.py::C.run, and run's call helper() in x.py its rule 1
\* edge to x.py's helper.
C23_Witness ==
    /\ dpc = "returned"
    /\ Range(python_files) = {"zo", "x"}
    /\ <<"x", ".", "py", "::", "C", ".", "run">>
          \in DictGetOr(function_call_graph, <<"zoo", ".", "py", "::", "Dog", ".", "speak">>, {})
    /\ <<"x", ".", "py", "::", ".", "helper">>
          \in DictGetOr(function_call_graph, <<"x", ".", "py", "::", ".", "run">>, {})

\* the tokens of the bare calls name(...) of declaration i of file f
BareCalls(f, i) ==
    LET n == PyContent[f].nodes[i]
    IN  {n.calls[k].attr : k \in {h \in 1..Len(n.calls) : n.calls[h].kind = "name"}}

\* the files of the list, other than f, that declare a top-level function nm
DeclareTopLevel(f, nm) ==
    {g \in ParsedFiles \ {f} :
        \E j \in NodesOfKind(g, "func") :
            /\ PyContent[g].nodes[j].parent = 0
            /\ PyContent[g].nodes[j].name = nm}

\* C24: a bare call name(...) in a file that declares no function of that
\* name, another analysed file declaring a top-level function name, gives a
\* call edge from the caller to that function of the other file.
C24_BareCallCrossesFiles ==
    dpc = "returned" =>
        \A f \in ParsedFiles : \A i \in NodesOfKind(f, "func") :
            \A nm \in BareCalls(f, i) :
                ((\A j \in NodesOfKind(f, "func") : PyContent[f].nodes[j].name # nm)
                    /\ DeclareTopLevel(f, nm) # {})
                => DictGetOr(function_call_graph, DeclKey(f, i), {})
                       \cap TopLevelElsewhere(f, nm) # {}

\* C28: no function has a call edge to itself.
C28_NoSelfEdge ==
    \A i \in 1..Len(function_call_graph) :
        function_call_graph[i].key \notin function_call_graph[i].val

\* C28 witness: the resolver has run over animals.py, where Animal.speak
\* calls self.speak(), and over x.py, which gives call edges.
C28_Witness ==
    /\ dpc = "returned"
    /\ Range(python_files) = {"an", "x"}
    /\ function_call_graph # <<>>
    /\ \E i \in 1..Len(analysis_functions) :
          /\ analysis_functions[i].key = <<"animals", ".", "py", "::", "Animal", ".", "speak">>
          /\ \E k \in 1..Len(analysis_functions[i].val.calls) :
                analysis_functions[i].val.calls[k] = Id("speak")

\* whether a base token is a dotted attribute
IsDotted(token) == \E k \in 1..Len(token) : token[k] = "."

\* C30: a base token written as a dotted attribute gives no inheritance edge:
\* a class all of whose base tokens are dotted is the derived class of no edge.
C30_DottedBaseNeverResolves ==
    \A d \in Range(analysis_classes) :
        (\A k \in 1..Len(d.val.bases) : IsDotted(d.val.bases[k]))
            => \A i \in 1..Len(inheritance_tree) :
                  d.key \notin Range(inheritance_tree[i].val)

\* C30 witness: pkg/mod.py's Foo(animals.Animal) and animals.py's Animal have
\* gone through the resolver.
C30_Witness ==
    /\ dpc = "returned"
    /\ \E d \in Range(analysis_classes) :
          /\ d.key = <<"pkg", "/", "mod", ".", "py", "::", "Foo">>
          /\ d.val.bases = <<<<"animals", ".", "Animal">>>>
    /\ <<"animals", ".", "py", "::", "Animal">> \in DictKeys(analysis_classes)

\* C27: the rendering of the inheritance section terminates: no class is
\* formatted while it is itself being formatted, so the recursion of
\* format_inheritance_tree stays within the number of classes.
C27_InheritanceRenderingTerminates ==
    \A i, j \in 1..Len(call_stack) : call_stack[i] = call_stack[j] => i = j

-----------------------------------------------------------------------------
(* The command line *)

\* the backtick character, which a TLA+ string cannot hold
Tick == "<backtick>"

\* the characters of the file contents
Chars == {Tick, "a"}

\* the contents of the file, up to MaxContent characters
RECURSIVE ContentsOf(_)
ContentsOf(n) ==
    IF n = 0 THEN {<<>>}
    ELSE ContentsOf(n - 1)
             \cup {Append(c, ch) : c \in {d \in ContentsOf(n - 1) : Len(d) = n - 1},
                                   ch \in Chars}

\* the values of _detect_lang for the files rendered: none, and python
Langs == {<<>>, <<"p", "y", "t", "h", "o", "n">>}

Max(a, b) == IF a >= b THEN a ELSE b

\* [len(r) for r in runs], runs the matches of one or more backticks in content
\* that re.findall gives: the lengths of the maximal
\* runs of backticks from position i on, cur the length of the run being read
RECURSIVE RunLengths(_, _, _)
RunLengths(content, i, cur) ==
    IF i > Len(content) THEN (IF cur > 0 THEN <<cur>> ELSE <<>>)
    ELSE IF content[i] = Tick THEN RunLengths(content, i + 1, cur + 1)
    ELSE (IF cur > 0 THEN <<cur>> ELSE <<>>) \o RunLengths(content, i + 1, 0)

\* max(lens, default=0)
RECURSIVE MaxOf(_)
MaxOf(lens) == IF lens = <<>> THEN 0 ELSE Max(Head(lens), MaxOf(Tail(lens)))

\* A fence of three backticks whatever the content.
TripleFence(max_ticks) == 3

\* fence_len = max(3, max_ticks + 1)
FenceLen(max_ticks) == Max(3, max_ticks + 1)

\* s.rstrip()
RECURSIVE RStrip(_)
RStrip(s) ==
    IF s # <<>> /\ s[Len(s)] \in {" ", "\n", "\t"} THEN RStrip(SubSeq(s, 1, Len(s) - 1))
    ELSE s

\* _build_fence(content, lang)
BuildFence(content, lang) ==
    LET max_ticks == MaxOf(RunLengths(content, 1, 0))
        fence     == [i \in 1..FenceLen(max_ticks) |-> Tick]
    IN  [opening |-> RStrip(fence \o lang), closing |-> fence]

SkipWarning == "Skipping: not a valid Git repository"

\* Running on any directory, repository or not.
NeverSkips(repo, force) == FALSE

\* "except InvalidGitRepositoryError: if not force: ... return"
Skips(repo, force) == ~repo /\ ~force

InitCli ==
    /\ argv \in [force : BOOLEAN, ignore_gitignore : BOOLEAN, no_files : BOOLEAN,
                 dependency_focus : BOOLEAN, verbose : BOOLEAN]
    /\ in_repo \in BOOLEAN
    /\ file_content \in ContentsOf(MaxContent)
    /\ file_lang \in Langs
    /\ cpc = "check"
    /\ stderr_lines = <<>>
    /\ out_parts = <<>>
    /\ file_block = << >>
    /\ clipboard_calls = 0
    /\ echoed = FALSE
    /\ SliceIdle
    /\ DepsIdle
    /\ PickIdle

\* cli, the safety check: git.Repo(root, search_parent_directories=True)
RepoCheck ==
    /\ cpc = "check"
    /\ IF Skips(in_repo, argv.force)
       THEN /\ stderr_lines' = Append(stderr_lines, SkipWarning)
            /\ cpc' = "returned"
       ELSE /\ cpc' = "render"
            /\ UNCHANGED stderr_lines
    /\ UNCHANGED <<argv, in_repo, file_content, file_lang, out_parts, file_block,
                   clipboard_calls, echoed>>
    /\ UNCHANGED <<sliceVars, depVars, pickVars>>

\* cli from the choice of the picker to final_output: the tree, then the
\* dependency map, or the file contents unless --no-files
Render ==
    /\ cpc = "render"
    /\ IF argv.dependency_focus
       THEN /\ out_parts' = <<"tree", "dependencies">>
            /\ UNCHANGED file_block
       ELSE IF ~argv.no_files
       THEN /\ out_parts' = <<"tree", "files">>
            /\ file_block' = BuildFence(file_content, file_lang)
       ELSE /\ out_parts' = <<"tree">>
            /\ UNCHANGED file_block
    /\ cpc' = "copy"
    /\ UNCHANGED <<argv, in_repo, file_content, file_lang, stderr_lines, clipboard_calls,
                   echoed>>
    /\ UNCHANGED <<sliceVars, depVars, pickVars>>

\* cli from copy_to_clipboard(final_output) on; ok is what the helper returns
Copy ==
    /\ cpc = "copy"
    /\ clipboard_calls' = clipboard_calls + 1
    /\ \E ok \in BOOLEAN :
          IF ok
          THEN /\ stderr_lines' = Append(stderr_lines, "[Copied to clipboard]")
               /\ echoed' = argv.verbose
          ELSE /\ stderr_lines' = Append(stderr_lines, "[Failed to copy to clipboard]")
               /\ echoed' = TRUE
    /\ cpc' = "returned"
    /\ UNCHANGED <<argv, in_repo, file_content, file_lang, out_parts, file_block>>
    /\ UNCHANGED <<sliceVars, depVars, pickVars>>

NextCli == RepoCheck \/ Render \/ Copy

SpecCli == InitCli /\ [][NextCli]_vars

-----------------------------------------------------------------------------
(* The command line's claims *)

\* the content has k backticks in a row somewhere
HasRun(content, k) ==
    \E i \in 1..(Len(content) - k + 1) : \A j \in i..(i + k - 1) : content[j] = Tick

\* the length of the longest run of backticks of the content
LongestRun(content) ==
    CHOOSE k \in 0..Len(content) :
        /\ HasRun(content, k)
        /\ \A m \in (k + 1)..Len(content) : ~HasRun(content, m)

\* the number of backticks s starts with
RECURSIVE LeadingTicks(_)
LeadingTicks(s) ==
    IF s # <<>> /\ s[1] = Tick THEN 1 + LeadingTicks(Tail(s)) ELSE 0

\* C21: the opening and the closing fence of a rendered file have the same
\* number L of backticks, L = max(3, 1 + the longest run of backticks of the
\* content): at least three and more than any run inside the content.
C21_FenceOutgrowsContent ==
    file_block # << >> =>
        LET L == Max(3, 1 + LongestRun(file_content))
        IN  /\ file_block.closing = [i \in 1..L |-> Tick]
            /\ LeadingTicks(file_block.opening) = L
            /\ file_block.opening = file_block.closing \o file_lang
            /\ L >= 3
            /\ ~HasRun(file_content, L)

\* C21 witness: a Python file whose content has three backticks in a row is
\* rendered between fences of four.
C21_Witness ==
    /\ cpc = "returned"
    /\ file_block # << >>
    /\ HasRun(file_content, 3)
    /\ file_lang # <<>>
    /\ Len(file_block.closing) = 4

\* C22: outside a Git repository and without --force, cli writes the skip
\* warning, renders nothing and never calls the clipboard, whatever the other
\* flags; with --force it goes on to render.
C22_NonRepoSkipsUnlessForced ==
    /\ (~in_repo /\ ~argv.force) =>
          /\ out_parts = <<>>
          /\ file_block = << >>
          /\ clipboard_calls = 0
          /\ ~echoed
          /\ cpc \in {"check", "returned"}
          /\ cpc = "returned" => stderr_lines = <<SkipWarning>>
    /\ (~in_repo /\ argv.force /\ cpc # "check") =>
          /\ \A i \in 1..Len(stderr_lines) : stderr_lines[i] # SkipWarning
          /\ (cpc = "returned" => (out_parts # <<>> /\ out_parts[1] = "tree"))

\* C22 witness: outside a repository, with -g and without --force, cli has
\* returned after the warning.
C22_Witness ==
    /\ cpc = "returned"
    /\ ~in_repo
    /\ ~argv.force
    /\ argv.ignore_gitignore
    /\ stderr_lines = <<SkipWarning>>

-----------------------------------------------------------------------------
(* The interactive picker: _PickerApp of picker/textuals.py *)

\* FileNode(name, path, node_type, children); children are paths, <<>> for None
DirNode(name, children) == [name |-> name, node_type |-> "directory", children |-> children]

FileNodeOf(name) == [name |-> name, node_type |-> "file", children |-> <<>>]

\* nodes[0].path
RootPath == "root"

\* The trees DefaultPicker.pick hands to the app, by path.
Trees ==
    { ("root" :> DirNode(<<".">>, <<"root/folder", "root/root_file.txt">>))
        @@ ("root/folder" :> DirNode(<<"folder">>, <<"root/folder/file1.py", "root/folder/file2.py">>))
        @@ ("root/folder/file1.py" :> FileNodeOf(<<"file1", ".", "py">>))
        @@ ("root/folder/file2.py" :> FileNodeOf(<<"file2", ".", "py">>))
        @@ ("root/root_file.txt" :> FileNodeOf(<<"root_file", ".", "txt">>)),
      ("root" :> DirNode(<<".">>, <<"root/a.py", "root/empty", "root/pkg">>))
        @@ ("root/a.py" :> FileNodeOf(<<"a", ".", "py">>))
        @@ ("root/empty" :> DirNode(<<"empty">>, <<>>))
        @@ ("root/pkg" :> DirNode(<<"pkg">>, <<"root/pkg/b.py", "root/pkg/sub">>))
        @@ ("root/pkg/b.py" :> FileNodeOf(<<"b", ".", "py">>))
        @@ ("root/pkg/sub" :> DirNode(<<"sub">>, <<"root/pkg/sub/c.py">>))
        @@ ("root/pkg/sub/c.py" :> FileNodeOf(<<"c", ".", "py">>)) }

\* node.parent of the UI node of n (NoNode for the root)
ParentOf(t, n) ==
    IF \E p \in DOMAIN t : n \in Range(t[p].children)
    THEN CHOOSE p \in DOMAIN t : n \in Range(t[p].children)
    ELSE NoNode

\* n and the nodes below it
RECURSIVE Subtree(_, _)
Subtree(t, n) == {n} \cup UNION {Subtree(t, c) : c \in Range(t[n].children)}

\* the nodes above n
RECURSIVE Ancestors(_, _)
Ancestors(t, n) ==
    IF ParentOf(t, n) = NoNode THEN {}
    ELSE {ParentOf(t, n)} \cup Ancestors(t, ParentOf(t, n))

\* _get_selection_state
RECURSIVE SelectionState(_, _, _)
SelectionState(t, paths, n) ==
    IF n \in paths THEN 2
    ELSE IF t[n].node_type = "file" \/ t[n].children = <<>> THEN 0
    ELSE LET child_states == [i \in 1..Len(t[n].children) |->
                                 SelectionState(t, paths, t[n].children[i])]
         IN  IF \A i \in DOMAIN child_states : child_states[i] = 2 THEN 2
             ELSE IF \E i \in DOMAIN child_states : child_states[i] > 0 THEN 1
             ELSE 0

\* the three marks of _format_label; the check mark (U+2713) is written v
MarkSelected == "[v]"

MarkPartial == "[-]"

MarkUnselected == "[ ]"

\* _format_label: the mark and the name
FormatLabel(t, paths, n) ==
    LET state == SelectionState(t, paths, n)
    IN  [mark |-> IF state = 2 THEN MarkSelected
                  ELSE IF state = 1 THEN MarkPartial ELSE MarkUnselected,
         name |-> t[n].name]

\* _set_subtree_selection touching file_node alone.
SetNodeSelection(t, paths, n, select) ==
    IF select THEN paths \cup {n} ELSE paths \ {n}

\* _set_subtree_selection over the nodes still to visit: the first is added or
\* discarded and its children are visited before the rest
RECURSIVE SetSelectionOf(_, _, _, _)
SetSelectionOf(t, paths, ns, select) ==
    IF ns = <<>> THEN paths
    ELSE SetSelectionOf(t,
                        IF select THEN paths \cup {Head(ns)} ELSE paths \ {Head(ns)},
                        t[Head(ns)].children \o Tail(ns), select)

\* _set_subtree_selection
SetSubtreeSelection(t, paths, n, select) == SetSelectionOf(t, paths, <<n>>, select)

\* the labels after set_label on the UI nodes ns
Relabel(lbl, t, paths, ns) ==
    [m \in DOMAIN lbl |-> IF m \in ns THEN FormatLabel(t, paths, m) ELSE lbl[m]]

\* node.add for the children of n
AddChildren(lbl, t, paths, n) ==
    [m \in DOMAIN lbl \cup Range(t[n].children) |->
        IF m \in DOMAIN lbl THEN lbl[m] ELSE FormatLabel(t, paths, m)]

\* prune of action_confirm keeping every directory.
RECURSIVE PruneKeepingDirs(_, _, _)
PruneKeepingDirs(t, paths, ns) ==
    IF ns = <<>> THEN <<>>
    ELSE LET n == Head(ns)
         IN  (IF t[n].node_type = "file"
              THEN IF n \in paths THEN <<[path |-> n, children |-> <<>>]>> ELSE <<>>
              ELSE <<[path |-> n, children |-> PruneKeepingDirs(t, paths, t[n].children)]>>)
             \o PruneKeepingDirs(t, paths, Tail(ns))

\* prune of action_confirm: the kept nodes as [path, children]
RECURSIVE Prune(_, _, _)
Prune(t, paths, ns) ==
    IF ns = <<>> THEN <<>>
    ELSE LET n == Head(ns)
         IN  (IF t[n].node_type = "file"
              THEN IF n \in paths THEN <<[path |-> n, children |-> <<>>]>> ELSE <<>>
              ELSE LET children == Prune(t, paths, t[n].children)
                   IN  IF children # <<>> \/ n \in paths
                       THEN <<[path |-> n, children |-> children]>>
                       ELSE <<>>)
             \o Prune(t, paths, Tail(ns))

\* self.nodes after prune: new_node is a deep copy, the nodes are not written
NodesAfterPrune(t, paths) == t

\* app.selected_nodes at exit, were quit to gather the selection as confirm does.
ExitNodesGathered(action, nodes_so_far, pruned) == pruned

\* app.selected_nodes at exit: assigned by action_confirm alone
ExitNodes(action, nodes_so_far, pruned) ==
    IF action = "confirm" THEN pruned ELSE nodes_so_far

\* _PickerApp(raw), compose and on_mount
InitPick ==
    /\ app_nodes \in Trees
    /\ selected_paths = {}
    /\ selected_nodes = <<>>
    /\ label = [m \in {RootPath} \cup Range(app_nodes[RootPath].children) |->
                   FormatLabel(app_nodes, {}, m)]
    /\ expanded = {RootPath}
    /\ cursor = NoNode
    /\ screen = "main"
    /\ slice_node = NoNode
    /\ paths_at_slice = {}
    /\ modal_result = NoNode
    /\ SliceIdle
    /\ DepsIdle
    /\ CliIdle

\* the cursor moved to a UI node (arrow keys, mouse, tree.select_node)
MoveCursor ==
    /\ screen = "main"
    /\ \E n \in DOMAIN label : cursor' = n
    /\ UNCHANGED <<app_nodes, selected_paths, selected_nodes, label, expanded, screen,
                   slice_node>>
    /\ UNCHANGED <<paths_at_slice, modal_result>>
    /\ UNCHANGED <<sliceVars, depVars, cliVars>>

\* action_toggle
Toggle ==
    /\ cursor # NoNode
    /\ LET is_selecting == cursor \notin selected_paths
           paths == SetSubtreeSelection(app_nodes, selected_paths, cursor, is_selecting)
       IN  /\ selected_paths' = paths
           /\ label' = Relabel(label, app_nodes, paths,
                               (Subtree(app_nodes, cursor) \cap DOMAIN label)
                                   \cup Ancestors(app_nodes, cursor))
    /\ UNCHANGED <<app_nodes, selected_nodes, expanded, cursor, screen, slice_node>>
    /\ UNCHANGED <<paths_at_slice, modal_result>>
    /\ UNCHANGED <<sliceVars, depVars, cliVars>>

\* the binding of space; the bindings of the app are not consulted while a modal
\* screen is active
ActionToggle == screen = "main" /\ Toggle

\* action_expand_or_child
ActionExpandOrChild ==
    /\ screen = "main"
    /\ cursor # NoNode
    /\ IF app_nodes[cursor].children # <<>> /\ cursor \notin expanded
       THEN expanded' = expanded \cup {cursor} /\ cursor' = cursor
       ELSE /\ app_nodes[cursor].children # <<>>
            /\ app_nodes[cursor].children[1] \in DOMAIN label
            /\ cursor' = app_nodes[cursor].children[1]
            /\ expanded' = expanded
    /\ UNCHANGED <<app_nodes, selected_paths, selected_nodes, label, screen, slice_node>>
    /\ UNCHANGED <<paths_at_slice, modal_result>>
    /\ UNCHANGED <<sliceVars, depVars, cliVars>>

\* on_tree_node_expanded: the children of an expanded node are added once
OnTreeNodeExpanded ==
    /\ screen \in {"main", "modal"}
    /\ \E n \in expanded \cap DOMAIN label :
          /\ app_nodes[n].children # <<>>
          /\ Range(app_nodes[n].children) \cap DOMAIN label = {}
          /\ label' = AddChildren(label, app_nodes, selected_paths, n)
    /\ UNCHANGED <<app_nodes, selected_paths, selected_nodes, expanded, cursor, screen,
                   slice_node>>
    /\ UNCHANGED <<paths_at_slice, modal_result>>
    /\ UNCHANGED <<sliceVars, depVars, cliVars>>

\* action_collapse_or_parent
ActionCollapseOrParent ==
    /\ screen = "main"
    /\ cursor # NoNode
    /\ IF cursor \in expanded
       THEN expanded' = expanded \ {cursor} /\ cursor' = cursor
       ELSE /\ ParentOf(app_nodes, cursor) # NoNode
            /\ cursor' = ParentOf(app_nodes, cursor)
            /\ expanded' = expanded
    /\ UNCHANGED <<app_nodes, selected_paths, selected_nodes, label, screen, slice_node>>
    /\ UNCHANGED <<paths_at_slice, modal_result>>
    /\ UNCHANGED <<sliceVars, depVars, cliVars>>

\* action_slice on a Python file that has symbols: the symbol dialog opens
ActionSlice ==
    /\ screen = "main"
    /\ cursor # NoNode
    /\ app_nodes[cursor].node_type = "file"
    /\ EndsWith(app_nodes[cursor].name, <<".", "py">>)
    /\ screen' = "modal"
    /\ slice_node' = cursor
    /\ paths_at_slice' = selected_paths
    /\ modal_result' = "open"
    /\ UNCHANGED <<app_nodes, selected_paths, selected_nodes, label, expanded, cursor>>
    /\ UNCHANGED <<sliceVars, depVars, cliVars>>

\* the Python files of the tree: what resolve_slice_dependencies can return of it
PythonPaths(t) ==
    {n \in DOMAIN t : t[n].node_type = "file" /\ EndsWith(t[n].name, <<".", "py">>)}

\* handle_slice_selection(symbol): the files of the slice that the tree has are
\* selected and every label is refreshed
HandleSliceSelection ==
    /\ screen = "modal"
    /\ \E deps \in SUBSET PythonPaths(app_nodes) :
          /\ selected_paths' = selected_paths \cup deps
          /\ label' = Relabel(label, app_nodes, selected_paths \cup deps, DOMAIN label)
    /\ screen' = "main"
    /\ slice_node' = NoNode
    /\ modal_result' = "symbol"
    /\ paths_at_slice' = {}
    /\ UNCHANGED <<app_nodes, selected_nodes, expanded, cursor>>
    /\ UNCHANGED <<sliceVars, depVars, cliVars>>

\* SymbolSelectionScreen.on_key with escape: dismiss(None), and
\* handle_slice_selection(None) returns at once
DismissSlice ==
    /\ screen = "modal"
    /\ screen' = "main"
    /\ slice_node' = NoNode
    /\ modal_result' = "escape"
    /\ paths_at_slice' = {}
    /\ UNCHANGED <<app_nodes, selected_paths, selected_nodes, label, expanded, cursor>>
    /\ UNCHANGED <<sliceVars, depVars, cliVars>>

\* action_confirm
Confirm ==
    /\ selected_nodes' = ExitNodes("confirm", selected_nodes,
                                   Prune(app_nodes, selected_paths, <<RootPath>>))
    /\ app_nodes' = NodesAfterPrune(app_nodes, selected_paths)
    /\ screen' = "confirmed"
    /\ UNCHANGED <<selected_paths, label, expanded, cursor, slice_node>>
    /\ UNCHANGED <<paths_at_slice, modal_result>>
    /\ UNCHANGED <<sliceVars, depVars, cliVars>>

\* the binding of enter
ActionConfirm == screen = "main" /\ Confirm

\* action_quit
Quit ==
    /\ selected_nodes' = ExitNodes("quit", selected_nodes,
                                   Prune(app_nodes, selected_paths, <<RootPath>>))
    /\ screen' = "quit"
    /\ UNCHANGED <<app_nodes, selected_paths, label, expanded, cursor, slice_node>>
    /\ UNCHANGED <<paths_at_slice, modal_result>>
    /\ UNCHANGED <<sliceVars, depVars, cliVars>>

\* the binding of q
ActionQuit == screen = "main" /\ Quit

\* Handling the keys of the app whatever screen is active.
HandlesKeyOnAnyScreen(scr) == TRUE

\* "if isinstance(self.screen, ModalScreen): return" of _PickerApp.on_key
HandlesKey(scr) == scr # "modal"

\* _PickerApp.on_key: space toggles, enter confirms, q quits, unless a modal
\* screen is active
OnKey ==
    /\ screen \in {"main", "modal"}
    /\ \E key \in {"space", "enter", "q"} :
          IF HandlesKey(screen)
          THEN \/ key = "space" /\ Toggle
               \/ key = "enter" /\ Confirm
               \/ key = "q" /\ Quit
          ELSE UNCHANGED vars

NextPick ==
    \/ MoveCursor
    \/ ActionToggle
    \/ ActionExpandOrChild
    \/ OnTreeNodeExpanded
    \/ ActionCollapseOrParent
    \/ ActionSlice
    \/ HandleSliceSelection
    \/ DismissSlice
    \/ ActionConfirm
    \/ ActionQuit
    \/ OnKey

SpecPick == InitPick /\ [][NextPick]_vars

-----------------------------------------------------------------------------
(* The picker's claims *)

\* the nodes strictly below n
Descendants(t, n) == {m \in DOMAIN t : n \in Ancestors(t, m)}

\* C16: a toggle on a directory whose path is not selected adds the directory
\* and all its descendants to selected_paths, and a toggle on a directory whose
\* path is selected removes the directory and all its descendants.
C16_ToggleDirectoryIsRecursive ==
    [][(ActionToggle /\ app_nodes[cursor].node_type = "directory") =>
          LET all == {cursor} \cup Descendants(app_nodes, cursor)
          IN  IF cursor \notin selected_paths
              THEN selected_paths' = selected_paths \cup all
              ELSE selected_paths' = selected_paths \ all]_vars

\* C16 witness: the cursor is on root/pkg, and root/pkg and everything below
\* it, two levels deep, are selected while root is not.
C16_Witness ==
    /\ screen = "main"
    /\ cursor = "root/pkg"
    /\ {"root/pkg", "root/pkg/b.py", "root/pkg/sub", "root/pkg/sub/c.py"} \subseteq selected_paths
    /\ "root" \notin selected_paths

\* C17: a toggle turns the node under the cursor from displayed unselected to
\* displayed selected with its path selected, and from displayed selected to
\* displayed unselected with its path not selected, file or folder.
C17_ToggleFlipsDisplayedNode ==
    [][ActionToggle =>
          /\ label[cursor].mark = MarkUnselected
                => (label'[cursor].mark = MarkSelected /\ cursor \in selected_paths')
          /\ label[cursor].mark = MarkSelected
                => (label'[cursor].mark = MarkUnselected /\ cursor \notin selected_paths')]_vars

\* the files below n
FilesBelow(t, n) == {m \in Descendants(t, n) : t[m].node_type = "file"}

\* C18: a directory with children is displayed partial when some but not all
\* of the files below it are selected, selected only when every child is
\* fully selected, and unselected when nothing below it is selected.
C18_DirectoryMarkFollowsChildren ==
    \A n \in DOMAIN label :
        (app_nodes[n].node_type = "directory" /\ app_nodes[n].children # <<>>) =>
            LET below == FilesBelow(app_nodes, n)
            IN  /\ (below \cap selected_paths # {} /\ ~(below \subseteq selected_paths))
                      => label[n].mark = MarkPartial
                /\ label[n].mark = MarkSelected
                      => \A c \in Range(app_nodes[n].children) :
                            SelectionState(app_nodes, selected_paths, c) = 2
                /\ Descendants(app_nodes, n) \cap selected_paths = {}
                      => label[n].mark = MarkUnselected

\* whether prune keeps n: a file that is selected, a directory that is
\* selected or has a selected node below it
RECURSIVE Kept(_, _, _)
Kept(t, paths, n) ==
    IF t[n].node_type = "file" THEN n \in paths
    ELSE n \in paths \/ \E m \in Descendants(t, n) : Kept(t, paths, m)

\* whether out is made of the kept nodes of ns, in order, each with the kept
\* ones of its children
RECURSIVE IsPruningOf(_, _, _, _)
IsPruningOf(out, t, paths, ns) ==
    LET expected == SelectSeq(ns, LAMBDA n : Kept(t, paths, n))
    IN  /\ Len(out) = Len(expected)
        /\ \A i \in 1..Len(out) :
              /\ out[i].path = expected[i]
              /\ IsPruningOf(out[i].children, t, paths, t[expected[i]].children)

\* C19: after confirm, selected_nodes is the tree with a file kept exactly
\* when its path is selected and a directory exactly when its path is selected
\* or something below it is kept, order and nesting as in the input, and the
\* input tree is as it was handed to the app.
C19_ConfirmPrunesTree ==
    screen = "confirmed" =>
        /\ IsPruningOf(selected_nodes, app_nodes, selected_paths, <<RootPath>>)
        /\ app_nodes \in Trees

\* C19 witness: confirmed with root/pkg/sub/c.py and the empty directory
\* selected and root/a.py and root/pkg/b.py not: some nodes go, some stay.
C19_Witness ==
    /\ screen = "confirmed"
    /\ selected_paths = {"root/pkg/sub/c.py", "root/empty"}
    /\ Len(selected_nodes) = 1
    /\ Len(selected_nodes[1].children) = 2

\* C20: when the app has exited through quit, selected_nodes is empty.
C20_QuitSelectsNothing ==
    screen = "quit" => selected_nodes = <<>>

\* C20 witness: quit after a toggle and a slice left paths selected.
C20_Witness ==
    /\ screen = "quit"
    /\ "root/root_file.txt" \in selected_paths
    /\ "root/folder/file1.py" \in selected_paths
    /\ "root/folder" \notin selected_paths

\* C29: while the symbol dialog is open the key handler of the app changes
\* neither selected_paths nor whether the app runs, and when escape dismisses
\* the dialog selected_paths is what it was when the slice action opened it.
C29_ModalKeysAreIgnored ==
    /\ [](screen = "modal" => selected_paths = paths_at_slice)
    /\ [][screen = "modal" => screen' \in {"modal", "main"}]_vars
    /\ [][(screen = "modal" /\ modal_result' = "escape")
             => (screen' = "main" /\ selected_paths' = paths_at_slice)]_vars

\* C29 witness: with two paths selected the dialog was opened and escape has
\* dismissed it.
C29_Witness ==
    /\ screen = "main"
    /\ modal_result = "escape"
    /\ Cardinality(selected_paths) >= 2

====
